---- MODULE Spec2Model ----
(***************************************************************************)
(* Replica proposal and applied-result pipeline of                         *)
(* pkg/storage/replica_proposal.go: proposal completion                    *)
(* (finishApplication / signalProposalResult), proposal construction       *)
(* (evaluateProposal / requestToProposal), lease installation              *)
(* (leasePostApply) and the appliers of the replicated and local halves    *)
(* of an evaluation result.                                                *)
(***************************************************************************)
EXTENDS Integers, Sequences, FiniteSets, TLC

\* ------------------------------------------------------------------ bounds

\* Number of finishApplication / signalProposalResult calls made on one proposal.
MaxCalls == 3

\* Capacity of the completion channel made by requestToProposal
\* (make(chan proposalResult, 1)).
DoneChCap == 1

\* Number of appliers (handleReplicatedEvalResult, handleLocalEvalResult) run.
MaxApplies == 2

\* Longest updated-transactions list of a LocalResult.
MaxTxns == 2

\* Notification channels made for checksum entries.
MaxChans == 2

\* Largest lease sequence number drawn for a new lease.
MaxSeq == 3

\* Longest SSTable payload drawn, in bytes.
MaxPayload == 2

\* Largest Raft log size an append may reach, in bytes.
MaxLogSize == 5

\* Read-only commands that may hold readOnlyCmdMu at once.
MaxReaders == 1

VARIABLES
    \* ---- ProposalData and its completion channel
    pState,       \* "none" (not built), "built", "crashed" (requestToProposal panicked)
    pEndCmds,     \* proposal.endCmds != nil
    pHadEndCmds,  \* the endCmds argument of requestToProposal was non-nil
    pSp,          \* proposal.sp != nil
    pDoneCh,      \* proposal.doneCh: "nil" or "ch"
    pCommand,     \* proposal.command != nil
    pErr,         \* the *roachpb.Error returned by requestToProposal: "nil", "err", "errTxn"
    chCap,        \* capacity of the channel behind doneCh
    chBuf,        \* results buffered in the channel
    endCmdsLog,   \* the (Reply, Err) pairs endCmds.done was invoked with, in order
    spanFinishes, \* number of tracing.FinishSpan calls on the proposal's span
    sentLog,      \* every result ever sent on the completion channel, in order
    client,       \* the waiting RPC handler: "waiting", "cancelled", "got"
    clientGot,    \* what the handler received
    pc,           \* position of the goroutine calling into the proposal
    curPr,        \* the proposalResult argument of the call in progress
    calls,        \* calls made so far
    callLog,      \* the calls made, in order: [op |-> "finish" or "signal", pr |-> argument]
    \* ---- Replica state touched by leasePostApply
    rLease,       \* r.mu.state.Lease
    tsCacheLow,   \* low-water mark of r.store.tsCache for the range
    txnWaitQueueEnabled, \* r.txnWaitQueue is enabled
    renewableRegistered, \* the range is in r.store.renewableLeases
    crashed,      \* "none", or the log.Fatalf that ended the process
    rInstalledBy, \* how rLease was installed: [changingToMe, barriers], see LeaseInstall
    \* ---- the leasePostApply call in progress (or the last one)
    lpc,          \* "idle", "read", "barriers", "check", "install", "after", "done"
    lNew,         \* newLease
    lPermitJump,  \* permitJump
    lVia,         \* caller: "raft" (handleReplicatedEvalResult) or "other"
    lPrev,        \* prevLease, read under r.mu
    lPre,         \* replica state when the call began
    lEnv,         \* what the call has read of its environment: r.leaseholderStats, and the answers after the install
    lEffects,     \* side effects performed by the call so far
    \* ---- application of evaluation results (under raftMu)
    rep,          \* r.mu.state, the Raft-log-size accounting, the bounds the entry cache and the sideloaded storage were cut at
    checksums,    \* r.mu.checksums: checksum ID -> <<>> (no entry) or <<ReplicaChecksum>>
    tasks,        \* the asynchronous checksum tasks running: [id, snap, done (computeChecksumDone has been called)]
    chanCount,    \* notification channels made so far; a channel is named by its number
    applyCount,   \* calls of the appliers so far
    aLast,        \* the last applier call, once it has ended: function, input, outcome
    storeStats,   \* r.store.metrics: the MVCC stats summed over the store's ranges
    deltaSum,     \* history: the sum of the Delta of every result handed to an applier so far
    snapshots,    \* the engine snapshots (NewSnapshot) that are open
    doneCount,    \* history: checksum ID -> computeChecksumDone calls since the ID was last applied
    \* ---- one evaluation, as a function of its inputs
    evIn,         \* the call of evaluateProposal made: <<>> or <<EvalCalls element>>
    evOut,        \* what evaluateProposal and requestToProposal returned for it
    \* ---- one SSTable ingestion, as a function of its inputs
    sstIn,        \* the call of addSSTablePreApply made: <<>> or <<SSTCalls element>>
    sstOut,       \* its outcome
    \* ---- one command applied step by step while readers come and go
    readOnlyCmdMu, \* r.readOnlyCmdMu: [writer |-> held exclusively, readers |-> shared holders]
    apc,          \* position of the applier call in progress: "idle", a section of hrerSection, "local", "assert", "fatal"
    aCmd          \* the frame of that call: its results, what the collaborators answer, the working copy, the locals

proposalVars == <<pState, pEndCmds, pHadEndCmds, pSp, pDoneCh, pCommand, pErr, chCap, chBuf,
                  endCmdsLog, spanFinishes, sentLog, client, clientGot, pc, curPr,
                  calls, callLog>>

leaseVars == <<rLease, tsCacheLow, txnWaitQueueEnabled, renewableRegistered, crashed,
               rInstalledBy, lpc, lNew, lPermitJump, lVia, lPrev, lPre, lEnv,
               lEffects>>

applyVars == <<rep, checksums, tasks, chanCount, applyCount, aLast, storeStats, deltaSum,
               snapshots, doneCount>>

evalVars == <<evIn, evOut>>

sstVars == <<sstIn, sstOut>>

cmdVars == <<readOnlyCmdMu, apc, aCmd>>

vars == <<proposalVars, leaseVars, applyVars, evalVars, sstVars, cmdVars>>

\* What the proposal actions leave alone, and what the lease actions leave alone.
nonProposalVars == <<leaseVars, applyVars, evalVars, sstVars, cmdVars>>
nonLeaseVars == <<proposalVars, applyVars, evalVars, sstVars, cmdVars>>
nonApplyVars == <<proposalVars, evalVars, sstVars, cmdVars>>

\* --------------------------------------------------------- optional values

\* A nil pointer or slice, and a non-nil one holding v.
None == <<>>
Some(v) == <<v>>

\* ------------------------------------------------------------- zero values

\* The zero LocalResult.
ZeroLocal ==
    [Reply |-> None, Intents |-> None, EndTxns |-> None, Metrics |-> None,
     GossipFirstRange |-> FALSE, MaybeAddToSplitQueue |-> FALSE,
     MaybeGossipSystemConfig |-> FALSE, MaybeGossipNodeLiveness |-> None,
     UpdatedTxns |-> None]

\* The zero ReplicaState (the State sub-struct of a result, and r.mu.state).
ZeroReplicaState ==
    [RaftAppliedIndex |-> 0, LeaseAppliedIndex |-> 0, Desc |-> None, Lease |-> None,
     TruncatedState |-> None, GCThreshold |-> None, Stats |-> None,
     TxnSpanGCThreshold |-> None, UsingAppliedStateKey |-> FALSE]

\* The zero ReplicatedEvalResult.  Pointer fields are None or Some(value); Delta
\* and Timestamp are embedded structs, here one number each.
ZeroRER ==
    [IsLeaseRequest |-> FALSE, Timestamp |-> 0, PrevLeaseProposal |-> None,
     BlockReads |-> FALSE, Delta |-> 0, DeprecatedDelta |-> None, State |-> None,
     RaftLogDelta |-> 0, SuggestedCompactions |-> <<>>, Split |-> None,
     Merge |-> None, ChangeReplicas |-> None, ComputeChecksum |-> None,
     AddSSTable |-> None]

\* ------------------------------------------------------------ proposalResult

NilResult == [Reply |-> "nil", Err |-> "nil"]

\* proposalResult: exactly one of Reply and Err is set.
ProposalResults ==
    { [Reply |-> "br1", Err |-> "nil"],
      [Reply |-> "br2", Err |-> "nil"],
      [Reply |-> "nil", Err |-> "pErr"] }

\* ---------------------------------------------------------- evaluateProposal

\* LocalResult.DetachIntents: the intents (none for a nil field); the caller's
\* field is set to nil.
DetachIntents(local) == IF local.Intents = None THEN <<>> ELSE local.Intents[1]

\* LocalResult.DetachEndTxns(alwaysOnly = true): the ended transactions marked
\* Always, in order.
DetachEndTxnsAlways(local) ==
    IF local.EndTxns = None THEN <<>>
    ELSE SelectSeq(local.EndTxns[1], LAMBDA e : e = "always")

\* The local results evaluateWriteBatch hands back (the reply is set later).
EvalLocals ==
    { ZeroLocal,
      [ZeroLocal EXCEPT !.Intents = Some(<<"intent">>)],
      [ZeroLocal EXCEPT !.EndTxns = Some(<<"always", "notAlways">>)],
      [ZeroLocal EXCEPT !.Metrics = Some("metrics")],
      [ZeroLocal EXCEPT !.GossipFirstRange = TRUE],
      [ZeroLocal EXCEPT !.UpdatedTxns = Some(<<"txn">>)],
      [Reply |-> None, Intents |-> Some(<<"intent">>), EndTxns |-> Some(<<"always">>),
       Metrics |-> Some("metrics"), GossipFirstRange |-> TRUE,
       MaybeAddToSplitQueue |-> TRUE, MaybeGossipSystemConfig |-> TRUE,
       MaybeGossipNodeLiveness |-> Some("span"), UpdatedTxns |-> Some(<<"txn">>)] }

\* The replicated results evaluateWriteBatch hands back.
EvalReplicateds ==
    { ZeroRER,
      [ZeroRER EXCEPT !.Split = Some("split")],
      [ZeroRER EXCEPT !.State = Some([ZeroReplicaState EXCEPT !.GCThreshold = Some(1)])] }

\* One call of evaluateProposal: the batch (Timestamp 0 is the zero timestamp;
\* baTxn: ba.Txn != nil), what evaluateWriteBatch returns for it (evalErr: "nil",
\* "err" without a transaction, "errTxn" with one; batchEmpty; ms; local;
\* replicated), and what the store and replica answer (clockless: MaxOffset is
\* ClocklessMaxOffset; statsVersion, askVersion: the cluster versions are
\* active; usingAppliedStateKey: r.mu.state.UsingAppliedStateKey).
EvalCalls ==
    [ Timestamp : {0, 1}, baTxn : BOOLEAN, isLeaseRequest : BOOLEAN,
      evalErr : {"nil", "err", "errTxn"}, batchEmpty : BOOLEAN, ms : {0, 1},
      local : EvalLocals, replicated : EvalReplicateds, clockless : BOOLEAN,
      statsVersion : BOOLEAN, askVersion : BOOLEAN, usingAppliedStateKey : BOOLEAN ]

\* Mutant of needConsensusOf: the clockless mode is not looked at.
needConsensusIgnoresClockless(in) ==
    in.batchEmpty = FALSE \/ in.ms # 0 \/ in.replicated # ZeroRER

\* needConsensus := !batch.Empty() || ms != (enginepb.MVCCStats{}) ||
\*     !res.Replicated.Equal(storagepb.ReplicatedEvalResult{}) ||
\*     r.store.Clock().MaxOffset() == timeutil.ClocklessMaxOffset
needConsensusOf(in) ==
    in.batchEmpty = FALSE \/ in.ms # 0 \/ in.replicated # ZeroRER \/ in.clockless

\* Mutant of failedLocal: the local result is passed on as it is.
failedLocalKeepsAll(local) == local

\* The local result of a failed evaluation: only the detached intents, the
\* detached ended transactions and the metrics.
failedLocal(local) ==
    [ZeroLocal EXCEPT !.Intents = Some(DetachIntents(local)),
                      !.EndTxns = Some(DetachEndTxnsAlways(local)),
                      !.Metrics = local.Metrics]

\* The replicated result that goes through Raft: lease-request marker,
\* timestamp, the stats delta in the field the cluster version names, and the
\* applied-state-key migration flag while the replica does not use the key.
consensusReplicated(in) ==
    LET r1 == [in.replicated EXCEPT !.IsLeaseRequest = in.isLeaseRequest,
                                    !.Timestamp = in.Timestamp]
        r2 == IF in.statsVersion THEN [r1 EXCEPT !.Delta = in.ms]
              ELSE [r1 EXCEPT !.DeprecatedDelta = Some(in.ms)]
        st == IF r2.State = None THEN ZeroReplicaState ELSE r2.State[1]
    IN  IF ~in.usingAppliedStateKey /\ in.askVersion
        THEN [r2 EXCEPT !.State = Some([st EXCEPT !.UsingAppliedStateKey = TRUE])]
        ELSE r2

\* evaluateProposal: res is the returned *result.Result (None: nil), fatal says
\* that log.Fatalf was reached (an error with a transaction on a batch without).
evaluateProposal(in) ==
    IF in.Timestamp = 0
    THEN [res |-> None, needConsensus |-> FALSE, pErr |-> "err", fatal |-> FALSE]
    ELSE IF in.evalErr # "nil"
    THEN [res |-> Some([Local |-> failedLocal(in.local), Replicated |-> ZeroRER,
                        WriteBatch |-> None]),
          needConsensus |-> FALSE, pErr |-> in.evalErr,
          fatal |-> (in.evalErr = "errTxn" /\ ~in.baTxn)]
    ELSE IF needConsensusOf(in)
    THEN [res |-> Some([Local |-> [in.local EXCEPT !.Reply = Some("br")],
                        Replicated |-> consensusReplicated(in),
                        WriteBatch |-> Some("batch.Repr")]),
          needConsensus |-> TRUE, pErr |-> "nil", fatal |-> FALSE]
    ELSE [res |-> Some([Local |-> [in.local EXCEPT !.Reply = Some("br")],
                        Replicated |-> in.replicated, WriteBatch |-> None]),
          needConsensus |-> FALSE, pErr |-> "nil", fatal |-> FALSE]

\* Mutant of NewDoneChCap: an unbuffered completion channel.
UnbufferedDoneChCap == DoneChCap - 1

\* make(chan proposalResult, 1)
NewDoneChCap == DoneChCap

\* Mutant of newProposalData: the command is attached whatever needConsensus is.
newProposalDataAlwaysCommand(ev, endCmds) ==
    IF ev.fatal THEN [crash |-> "fatal", proposal |-> None, pErr |-> ev.pErr]
    ELSE IF ev.res = None
    THEN [crash |-> "nil pointer dereference", proposal |-> None, pErr |-> ev.pErr]
    ELSE [crash |-> "none",
          proposal |-> Some([endCmds |-> endCmds, doneChCap |-> NewDoneChCap,
                             Local |-> Some(ev.res[1].Local),
                             command |-> Some([ReplicatedEvalResult |->
                                                   ev.res[1].Replicated,
                                               WriteBatch |-> ev.res[1].WriteBatch])]),
          pErr |-> ev.pErr]

\* What requestToProposal makes of the outcome ev of evaluateProposal: the
\* ProposalData and the error.  log.Fatalf inside evaluateProposal ends the
\* process; &res.Local dereferences res, so a nil result panics.
newProposalData(ev, endCmds) ==
    IF ev.fatal THEN [crash |-> "fatal", proposal |-> None, pErr |-> ev.pErr]
    ELSE IF ev.res = None
    THEN [crash |-> "nil pointer dereference", proposal |-> None, pErr |-> ev.pErr]
    ELSE [crash |-> "none",
          proposal |-> Some([endCmds |-> endCmds, doneChCap |-> NewDoneChCap,
                             Local |-> Some(ev.res[1].Local),
                             command |-> IF ev.needConsensus
                                         THEN Some([ReplicatedEvalResult |->
                                                        ev.res[1].Replicated,
                                                    WriteBatch |-> ev.res[1].WriteBatch])
                                         ELSE None]),
          pErr |-> ev.pErr]

\* The call of evaluateProposal behind a proposal of the life-cycle model: the
\* local result is empty, the replicated result empty or a split.
ProposalEvalCall(tsZero, evalErr, baTxn, batchEmpty, msZero, replZero, clockless) ==
    [Timestamp |-> IF tsZero THEN 0 ELSE 1, baTxn |-> baTxn, isLeaseRequest |-> FALSE,
     evalErr |-> evalErr, batchEmpty |-> batchEmpty, ms |-> IF msZero THEN 0 ELSE 1,
     local |-> ZeroLocal,
     replicated |-> IF replZero THEN ZeroRER ELSE [ZeroRER EXCEPT !.Split = Some("split")],
     clockless |-> clockless, statsVersion |-> TRUE, askVersion |-> FALSE,
     usingAppliedStateKey |-> FALSE]

\* requestToProposal: evaluates the batch and fills out a ProposalData.
requestToProposal ==
    /\ pState = "none"
    /\ \E tsZero, baTxn, batchEmpty, msZero, replZero, clockless, hasEndCmds \in BOOLEAN,
          evalErr \in {"nil", "err", "errTxn"} :
         LET ev == evaluateProposal(ProposalEvalCall(tsZero, evalErr, baTxn, batchEmpty,
                                                     msZero, replZero, clockless))
             out == newProposalData(ev, hasEndCmds)
         IN  IF out.crash # "none"
             THEN /\ pState' = "crashed"
                  /\ UNCHANGED <<pEndCmds, pHadEndCmds, pDoneCh, pCommand, pErr, chCap>>
             ELSE /\ pState' = "built"
                  /\ pEndCmds' = out.proposal[1].endCmds
                  /\ pHadEndCmds' = out.proposal[1].endCmds
                  /\ pDoneCh' = "ch"
                  /\ chCap' = out.proposal[1].doneChCap
                  /\ pCommand' = (out.proposal[1].command # None)
                  /\ pErr' = out.pErr
    /\ UNCHANGED <<pSp, chBuf, endCmdsLog, spanFinishes, sentLog, client, clientGot,
                   pc, curPr, calls, callLog>>
    /\ UNCHANGED nonProposalVars

\* The caller may bind a tracing span to the proposal before it is finished.
AttachSpan ==
    /\ pState = "built" /\ ~pSp /\ calls = 0 /\ pc = "idle"
    /\ pSp' = TRUE
    /\ UNCHANGED <<pState, pEndCmds, pHadEndCmds, pDoneCh, pCommand, pErr, chCap, chBuf, endCmdsLog,
                   spanFinishes, sentLog, client, clientGot, pc, curPr, calls, callLog>>
    /\ UNCHANGED nonProposalVars

\* ------------------------------------------------- finishApplication, signal

\* A call of proposal.finishApplication(pr) begins.
CallFinishApplication ==
    /\ pState = "built" /\ pc = "idle" /\ calls < MaxCalls
    /\ \E pr \in ProposalResults :
         /\ curPr' = pr
         /\ callLog' = Append(callLog, [op |-> "finish", pr |-> pr])
    /\ pc' = "fa_endCmds"
    /\ calls' = calls + 1
    /\ UNCHANGED <<pState, pEndCmds, pHadEndCmds, pSp, pDoneCh, pCommand, pErr, chCap, chBuf,
                   endCmdsLog, spanFinishes, sentLog, client, clientGot>>
    /\ UNCHANGED nonProposalVars

\* Mutant of CallSignalProposalResult: signalling also runs the latch and span steps.
CallSignalAsFinish ==
    /\ pState = "built" /\ pc = "idle" /\ calls < MaxCalls
    /\ \E pr \in ProposalResults :
         /\ curPr' = pr
         /\ callLog' = Append(callLog, [op |-> "signal", pr |-> pr])
    /\ pc' = "fa_endCmds"
    /\ calls' = calls + 1
    /\ UNCHANGED <<pState, pEndCmds, pHadEndCmds, pSp, pDoneCh, pCommand, pErr, chCap, chBuf,
                   endCmdsLog, spanFinishes, sentLog, client, clientGot>>
    /\ UNCHANGED nonProposalVars

\* A call of proposal.signalProposalResult(pr) from outside finishApplication.
CallSignalProposalResult ==
    /\ pState = "built" /\ pc = "idle" /\ calls < MaxCalls
    /\ \E pr \in ProposalResults :
         /\ curPr' = pr
         /\ callLog' = Append(callLog, [op |-> "signal", pr |-> pr])
    /\ pc' = "signal"
    /\ calls' = calls + 1
    /\ UNCHANGED <<pState, pEndCmds, pHadEndCmds, pSp, pDoneCh, pCommand, pErr, chCap, chBuf,
                   endCmdsLog, spanFinishes, sentLog, client, clientGot>>
    /\ UNCHANGED nonProposalVars

\* if proposal.endCmds != nil { proposal.endCmds.done(pr.Reply, pr.Err); proposal.endCmds = nil }
FinishEndCmds ==
    /\ pc = "fa_endCmds"
    /\ IF pEndCmds
       THEN /\ endCmdsLog' = Append(endCmdsLog, curPr)
            /\ pEndCmds' = FALSE
       ELSE UNCHANGED <<endCmdsLog, pEndCmds>>
    /\ pc' = "fa_span"
    /\ UNCHANGED <<pState, pHadEndCmds, pSp, pDoneCh, pCommand, pErr, chCap, chBuf, spanFinishes,
                   sentLog, client, clientGot, curPr, calls, callLog>>
    /\ UNCHANGED nonProposalVars

\* if proposal.sp != nil { tracing.FinishSpan(proposal.sp) }
\* The span reference is not cleared.
FinishSpan ==
    /\ pc = "fa_span"
    /\ spanFinishes' = IF pSp THEN spanFinishes + 1 ELSE spanFinishes
    /\ pc' = "fa_signal"
    /\ UNCHANGED <<pState, pEndCmds, pHadEndCmds, pSp, pDoneCh, pCommand, pErr, chCap, chBuf,
                   endCmdsLog, sentLog, client, clientGot, curPr, calls, callLog>>
    /\ UNCHANGED nonProposalVars

\* A send on the completion channel can proceed: the buffer has room, or (for an
\* unbuffered channel) the handler is blocked receiving.
SendReady == Len(chBuf) < chCap \/ (chCap = 0 /\ client = "waiting")

\* Mutant of SignalSend: the channel reference is not cleared after the send.
SignalSendKeepsRef ==
    /\ pc \in {"signal", "fa_signal"}
    /\ IF pDoneCh # "nil"
       THEN /\ SendReady
            /\ IF chCap = 0
               THEN /\ client' = "got" /\ clientGot' = curPr /\ UNCHANGED chBuf
               ELSE /\ chBuf' = Append(chBuf, curPr) /\ UNCHANGED <<client, clientGot>>
            /\ sentLog' = Append(sentLog, curPr)
       ELSE UNCHANGED <<chBuf, sentLog, client, clientGot>>
    /\ pc' = "idle"
    /\ curPr' = NilResult
    /\ UNCHANGED <<pState, pEndCmds, pHadEndCmds, pSp, pDoneCh, pCommand, pErr, chCap,
                   endCmdsLog, spanFinishes, calls, callLog>>
    /\ UNCHANGED nonProposalVars

\* signalProposalResult: if proposal.doneCh != nil { proposal.doneCh <- pr; proposal.doneCh = nil }
SignalSend ==
    /\ pc \in {"signal", "fa_signal"}
    /\ IF pDoneCh # "nil"
       THEN /\ SendReady
            /\ IF chCap = 0
               THEN /\ client' = "got" /\ clientGot' = curPr /\ UNCHANGED chBuf
               ELSE /\ chBuf' = Append(chBuf, curPr) /\ UNCHANGED <<client, clientGot>>
            /\ sentLog' = Append(sentLog, curPr)
            /\ pDoneCh' = "nil"
       ELSE UNCHANGED <<chBuf, sentLog, pDoneCh, client, clientGot>>
    /\ pc' = "idle"
    /\ curPr' = NilResult
    /\ UNCHANGED <<pState, pEndCmds, pHadEndCmds, pSp, pCommand, pErr, chCap, endCmdsLog,
                   spanFinishes, calls, callLog>>
    /\ UNCHANGED nonProposalVars

\* The RPC handler receives from the channel it holds.
ClientReceive ==
    /\ client = "waiting" /\ Len(chBuf) > 0
    /\ clientGot' = Head(chBuf)
    /\ chBuf' = Tail(chBuf)
    /\ client' = "got"
    /\ UNCHANGED <<pState, pEndCmds, pHadEndCmds, pSp, pDoneCh, pCommand, pErr, chCap, endCmdsLog,
                   spanFinishes, sentLog, pc, curPr, calls, callLog>>
    /\ UNCHANGED nonProposalVars

\* The RPC handler's context is cancelled: it stops listening.
ClientCancel ==
    /\ pState = "built" /\ client = "waiting"
    /\ client' = "cancelled"
    /\ UNCHANGED <<pState, pEndCmds, pHadEndCmds, pSp, pDoneCh, pCommand, pErr, chCap, chBuf,
                   endCmdsLog, spanFinishes, sentLog, clientGot, pc, curPr, calls, callLog>>
    /\ UNCHANGED nonProposalVars

\* -------------------------------------------------------- result.LocalResult

\* The updated-transactions lists drawn: every length up to MaxTxns.
TxnLists == { [i \in 1..n |-> "txn"] : n \in 0..MaxTxns }

\* LocalResults with one field set besides the reply.
SingleFieldLocals ==
    { [ZeroLocal EXCEPT !.Intents = Some(<<"intent">>)],
      [ZeroLocal EXCEPT !.EndTxns = Some(<<"endTxn">>)],
      [ZeroLocal EXCEPT !.Intents = Some(<<>>)],
      [ZeroLocal EXCEPT !.EndTxns = Some(<<>>)],
      [ZeroLocal EXCEPT !.Metrics = Some("metrics")],
      [ZeroLocal EXCEPT !.GossipFirstRange = TRUE],
      [ZeroLocal EXCEPT !.MaybeAddToSplitQueue = TRUE],
      [ZeroLocal EXCEPT !.MaybeGossipSystemConfig = TRUE],
      [ZeroLocal EXCEPT !.MaybeGossipNodeLiveness = Some("span")] }
    \cup { [ZeroLocal EXCEPT !.UpdatedTxns = Some(t)] : t \in TxnLists }

\* Results that still carry a list the caller should have detached, next to
\* fields that have side effects.
CombinedLocals ==
    { [ZeroLocal EXCEPT !.Intents = Some(<<"intent">>), !.GossipFirstRange = TRUE,
                        !.Metrics = Some("metrics")],
      [ZeroLocal EXCEPT !.EndTxns = Some(<<>>), !.MaybeAddToSplitQueue = TRUE,
                        !.MaybeGossipSystemConfig = TRUE] }

\* The LocalResults drawn: a reply next to zero or one field set or to a
\* combination; no reply, next to nothing or to an updated-transactions list.
LocalInputs ==
    { [l EXCEPT !.Reply = Some("br")] :
          l \in SingleFieldLocals \cup CombinedLocals \cup {ZeroLocal} }
    \cup {ZeroLocal}
    \cup { [ZeroLocal EXCEPT !.UpdatedTxns = Some(t)] : t \in TxnLists }

\* The loop over *lResult.UpdatedTxns: the field is set to nil inside the loop
\* body, once per element.
RECURSIVE updatedTxnsLoop(_, _, _)
updatedTxnsLoop(txns, field, n) ==
    IF txns = <<>> THEN [field |-> field, updates |-> n]
    ELSE updatedTxnsLoop(Tail(txns), None, n + 1)

\* Mutant of notDetached: only the intents are looked at.
notDetachedIntentsOnly(l) ==
    IF l.Intents # None THEN "Intents should be nil" ELSE "none"

\* The caller is required to detach the intents and the ended transactions:
\* the fatal raised when either pointer is non-nil.
notDetached(l) ==
    IF l.Intents # None THEN "Intents should be nil"
    ELSE IF l.EndTxns # None THEN "EndTxns should be nil"
    ELSE "none"

\* handleLocalEvalResult(ctx, lResult): crash is "none" or the log.Fatalf
\* reached, final is the working copy at the end, effects the calls made.
handleLocalEvalResult(lResult) ==
    LET l0 == [lResult EXCEPT !.Reply = None]
        loop == IF l0.UpdatedTxns # None
                THEN updatedTxnsLoop(l0.UpdatedTxns[1], l0.UpdatedTxns, 0)
                ELSE [field |-> None, updates |-> 0]
        final == [l0 EXCEPT !.GossipFirstRange = FALSE,
                            !.MaybeAddToSplitQueue = FALSE,
                            !.MaybeGossipSystemConfig = FALSE,
                            !.MaybeGossipNodeLiveness = None,
                            !.Metrics = None,
                            !.UpdatedTxns = loop.field]
        effects == (IF l0.GossipFirstRange THEN {"gossipFirstRange task"} ELSE {})
                   \cup (IF l0.MaybeAddToSplitQueue THEN {"splitQueue.MaybeAddAsync"} ELSE {})
                   \cup (IF l0.MaybeGossipSystemConfig THEN {"MaybeGossipSystemConfig"} ELSE {})
                   \cup (IF l0.MaybeGossipNodeLiveness # None
                         THEN {"MaybeGossipNodeLiveness"} ELSE {})
                   \cup (IF l0.Metrics # None THEN {"handleMetricsResult"} ELSE {})
                   \cup (IF loop.updates > 0 THEN {"txnWaitQueue.UpdateTxn"} ELSE {})
    IN  IF notDetached(l0) # "none"
        THEN [crash |-> notDetached(l0), final |-> l0, effects |-> {}, updates |-> 0]
        ELSE [crash |-> IF final # ZeroLocal THEN "unhandled field in LocalEvalResult"
                        ELSE "none",
              final |-> final, effects |-> effects, updates |-> loop.updates]

\* ------------------------------------------------------------- roachpb.Lease

\* This replica: r.store.StoreID() and r.mu.replicaID.
MyStoreID == 1
MyReplicaID == 1

\* The zero lease, the state of a replica that has applied no lease yet.
ZeroLease ==
    [Sequence |-> 0, StoreID |-> 0, ReplicaID |-> 0, Start |-> 0, Epoch |-> 0,
     Expiration |-> 0]

\* The leases drawn as newLease: a holder (this replica or another store's), a
\* start timestamp, and either an epoch (epoch-based, no expiration) or an
\* expiration (expiration-based, Epoch = 0).
Leases ==
    { [Sequence |-> s, StoreID |-> h, ReplicaID |-> h, Start |-> st, Epoch |-> ee[1],
       Expiration |-> ee[2]] :
        s \in 0..MaxSeq, h \in {1, 2}, st \in {1, 2}, ee \in {<<1, 0>>, <<0, 3>>, <<0, 4>>} }

\* Lease.Type(): a lease without an epoch is expiration-based.
LeaseType(l) == IF l.Epoch = 0 THEN "LeaseExpiration" ELSE "LeaseEpoch"

\* Lease.Equivalent(newL): proposed timestamp and sequence are ignored; epoch
\* leases compare holder, start and epoch; for expiration leases an extension
\* (an expiration not before the old one) is equivalent.  Not commutative.
Equivalent(l, newL) ==
    LET exps == IF LeaseType(l) = "LeaseEpoch" THEN <<0, 0>>
                ELSE IF l.Expiration <= newL.Expiration THEN <<0, 0>>
                ELSE <<l.Expiration, newL.Expiration>>
        epochs == IF LeaseType(l) = "LeaseEpoch"
                  THEN (IF l.Epoch = newL.Epoch THEN <<0, 0>> ELSE <<l.Epoch, newL.Epoch>>)
                  ELSE <<0, 0>>
    IN  /\ l.StoreID = newL.StoreID /\ l.ReplicaID = newL.ReplicaID
        /\ l.Start = newL.Start
        /\ exps[1] = exps[2]
        /\ epochs[1] = epochs[2]

\* Lease.OwnedBy(storeID)
OwnedBy(l, storeID) == l.StoreID = storeID

\* setTimestampCacheLowWaterMark: the low-water mark only moves forward.
setTimestampCacheLowWaterMark(low, start) == IF start > low THEN start ELSE low

\* ------------------------------------------------------------ leasePostApply

\* iAmTheLeaseHolder := newLease.Replica.ReplicaID == replicaID
iAmTheLeaseHolder(newLease) == newLease.ReplicaID = MyReplicaID

\* Mutant of leaseChangingHands: every application counts as a change of hands.
leaseChangingHandsAlways(prevLease, newLease) ==
    prevLease.StoreID # newLease.StoreID \/ prevLease.Sequence # newLease.Sequence
        \/ prevLease = newLease

\* leaseChangingHands := prevLease.Replica.StoreID != newLease.Replica.StoreID ||
\*                       prevLease.Sequence != newLease.Sequence
leaseChangingHands(prevLease, newLease) ==
    prevLease.StoreID # newLease.StoreID \/ prevLease.Sequence # newLease.Sequence

\* Mutant of leaseSeqCheck: the sequence check is made also when the previous
\* sequence is zero.
leaseSeqCheckNoZeroGuard(prevLease, newLease, permitJump) ==
    LET s1 == prevLease.Sequence
        s2 == newLease.Sequence
    IN  IF s2 < s1 THEN "inversion"
        ELSE IF s2 = s1 THEN (IF Equivalent(prevLease, newLease) THEN "none" ELSE "identical")
        ELSE IF s2 = s1 + 1 THEN "none"
        ELSE IF s2 > s1 + 1 /\ ~permitJump THEN "jump"
        ELSE "none"

\* Mutant of leaseSeqCheck: a forward jump is fatal whatever permitJump says.
leaseSeqCheckJumpAlwaysFatal(prevLease, newLease, permitJump) ==
    LET s1 == prevLease.Sequence
        s2 == newLease.Sequence
    IN  IF s1 = 0 THEN "none"
        ELSE IF s2 < s1 THEN "inversion"
        ELSE IF s2 = s1 THEN (IF Equivalent(prevLease, newLease) THEN "none" ELSE "identical")
        ELSE IF s2 = s1 + 1 THEN "none"
        ELSE "jump"

\* Mutant of leaseSeqCheck: a lower sequence is let through.
leaseSeqCheckInversionAllowed(prevLease, newLease, permitJump) ==
    LET s1 == prevLease.Sequence
        s2 == newLease.Sequence
    IN  IF s1 = 0 \/ s2 < s1 THEN "none"
        ELSE IF s2 = s1 THEN (IF Equivalent(prevLease, newLease) THEN "none" ELSE "identical")
        ELSE IF s2 = s1 + 1 THEN "none"
        ELSE IF s2 > s1 + 1 /\ ~permitJump THEN "jump"
        ELSE "none"

\* The sanity check on the lease sequence: the log.Fatalf it ends in, or "none".
leaseSeqCheck(prevLease, newLease, permitJump) ==
    LET s1 == prevLease.Sequence
        s2 == newLease.Sequence
    IN  IF s1 = 0 THEN "none"
        ELSE IF s2 < s1 THEN "inversion"
        ELSE IF s2 = s1 THEN (IF Equivalent(prevLease, newLease) THEN "none" ELSE "identical")
        ELSE IF s2 = s1 + 1 THEN "none"
        ELSE IF s2 > s1 + 1 /\ ~permitJump THEN "jump"
        ELSE "none"

\* The side effects before the sequence check (taking over the lease): the
\* merge watch, the timestamp-cache low-water mark, and the request counts if
\* the replica keeps them (leaseholderStats: r.leaseholderStats != nil).
leaseBarrierEffects(prevLease, newLease, leaseholderStats) ==
    IF leaseChangingHands(prevLease, newLease) /\ iAmTheLeaseHolder(newLease)
    THEN {"maybeWatchForMerge", "setTimestampCacheLowWaterMark"}
         \cup (IF leaseholderStats THEN {"resetRequestCounts"} ELSE {})
    ELSE {}

\* Mutant of renewableLeasesSignalSend: a plain send, which waits for the renewer.
renewableLeasesSignalSendBlocking(renewerIdle) ==
    IF renewerIdle THEN "renewableLeasesSignal sent" ELSE "renewableLeasesSignal blocked"

\* select { case r.store.renewableLeasesSignal <- struct{}{}: default: }: the
\* signal is sent if the renewer is receiving and dropped otherwise.
renewableLeasesSignalSend(renewerIdle) ==
    IF renewerIdle THEN "renewableLeasesSignal sent" ELSE "renewableLeasesSignal dropped"

\* The side effects after the new lease is installed, given what the call
\* reads of its environment (env).  valid: IsLeaseValid(newLease, now) as read
\* for the gossip of the first range; validAtRenew: the same call made again,
\* with a later reading of the clock, for the renewable leases;
\* expirationBasedLease: requiresExpiringLeaseRLocked(); firstRange:
\* IsFirstRange(); renewerIdle: the renewer is receiving on
\* renewableLeasesSignal; history: r.leaseHistory != nil; leaseholderStats:
\* r.leaseholderStats != nil.
leaseAfterEffects(prevLease, newLease, env) ==
    LET changing == leaseChangingHands(prevLease, newLease)
        iAm == iAmTheLeaseHolder(newLease)
        prevOwner == OwnedBy(prevLease, MyStoreID)
        currentOwner == OwnedBy(newLease, MyStoreID)
    IN  (IF changing /\ iAm /\ env.firstRange /\ env.valid THEN {"gossipFirstRange"} ELSE {})
        \cup (IF changing /\ iAm /\ env.expirationBasedLease /\ env.validAtRenew
              THEN {"renewableLeases.Store",
                    renewableLeasesSignalSend(env.renewerIdle)}
              ELSE {})
        \cup (IF changing /\ ~iAm THEN {"txnWaitQueue.Clear"} ELSE {})
        \cup {"maybeTransferRaftLeadership"}
        \cup (IF changing /\ (prevOwner \/ currentOwner)
              THEN {IF currentOwner THEN "leaseAddEvent" ELSE "leaseRemoveEvent"}
                   \cup (IF env.leaseholderStats THEN {"resetRequestCounts"} ELSE {})
              ELSE {})
        \cup (IF iAm THEN {"MaybeGossipSystemConfig", "MaybeGossipNodeLiveness",
                           "txnWaitQueue.Enable", "EmitMLAI"}
              ELSE {})
        \cup (IF env.history THEN {"leaseHistory.add"} ELSE {})

\* Mutant of txnWaitQueueAfter: Clear does not disable the queue.
txnWaitQueueAfterClearKeepsEnabled(enabled, effects) ==
    IF "txnWaitQueue.Enable" \in effects THEN TRUE ELSE enabled

\* r.txnWaitQueue after the effects: Clear(true) disables, Enable enables.
txnWaitQueueAfter(enabled, effects) ==
    IF "txnWaitQueue.Enable" \in effects THEN TRUE
    ELSE IF "txnWaitQueue.Clear" \in effects THEN FALSE
    ELSE enabled

\* false /* permitJump */ in handleReplicatedEvalResult
PermitJumpOnApply == FALSE

\* Mutant of lpaNext: the new lease is installed before the merge watch, the
\* timestamp-cache update and the sequence check.
lpaNextInstallFirst(p) ==
    CASE p = "read" -> "install"
      [] p = "install" -> "barriers"
      [] p = "barriers" -> "check"
      [] p = "check" -> "after"
      [] p = "after" -> "done"

\* The order of the steps of leasePostApply: read prevLease; merge watch and
\* timestamp cache; sequence check; install; the remaining side effects.
lpaNext(p) ==
    CASE p = "read" -> "barriers"
      [] p = "barriers" -> "check"
      [] p = "check" -> "install"
      [] p = "install" -> "after"
      [] p = "after" -> "done"

\* What leasePostApply has read of its environment before it has read any of
\* it.
NoLeaseEnv ==
    [valid |-> FALSE, validAtRenew |-> FALSE, expirationBasedLease |-> FALSE,
     firstRange |-> FALSE, renewerIdle |-> FALSE, history |-> FALSE,
     leaseholderStats |-> FALSE]

\* The environment of a call on a replica that keeps the request counts or
\* does not: r.leaseholderStats is set when the replica is made and read twice
\* by the call.
LeaseEnvOfReplica(leaseholderStats) ==
    [NoLeaseEnv EXCEPT !.leaseholderStats = leaseholderStats]

\* What the replica looks like to a reader, apart from the lease history.
ReplicaView ==
    [lease |-> rLease, tsCacheLow |-> tsCacheLow, txnq |-> txnWaitQueueEnabled,
     renewable |-> renewableRegistered]

\* handleReplicatedEvalResult applies a committed lease: leasePostApply(ctx, *newLease, false).
CallLeasePostApplyFromRaft ==
    /\ crashed = "none" /\ lpc = "idle"
    /\ \E l \in Leases : lNew' = l
    /\ lPermitJump' = PermitJumpOnApply
    /\ lVia' = "raft"
    /\ lpc' = "read"
    /\ lPre' = ReplicaView
    /\ \E leaseholderStats \in BOOLEAN : lEnv' = LeaseEnvOfReplica(leaseholderStats)
    /\ lEffects' = {}
    /\ lPrev' = ZeroLease
    /\ UNCHANGED <<rLease, tsCacheLow, txnWaitQueueEnabled, renewableRegistered, crashed,
                   rInstalledBy>>
    /\ UNCHANGED nonLeaseVars

\* Another caller (a snapshot, a split) applies a lease and chooses permitJump.
CallLeasePostApplyOther ==
    /\ crashed = "none" /\ lpc = "idle"
    /\ \E l \in Leases : lNew' = l
    /\ \E pj \in BOOLEAN : lPermitJump' = pj
    /\ lVia' = "other"
    /\ lpc' = "read"
    /\ lPre' = ReplicaView
    /\ \E leaseholderStats \in BOOLEAN : lEnv' = LeaseEnvOfReplica(leaseholderStats)
    /\ lEffects' = {}
    /\ lPrev' = ZeroLease
    /\ UNCHANGED <<rLease, tsCacheLow, txnWaitQueueEnabled, renewableRegistered, crashed,
                   rInstalledBy>>
    /\ UNCHANGED nonLeaseVars

\* r.mu.Lock(); replicaID := r.mu.replicaID; prevLease := *r.mu.state.Lease; r.mu.Unlock()
LeaseReadPrev ==
    /\ crashed = "none" /\ lpc = "read"
    /\ lPrev' = rLease
    /\ lpc' = lpaNext("read")
    /\ UNCHANGED <<rLease, tsCacheLow, txnWaitQueueEnabled, renewableRegistered, crashed,
                   rInstalledBy, lNew, lPermitJump, lVia, lPre, lEnv,
                   lEffects>>
    /\ UNCHANGED nonLeaseVars

\* if leaseChangingHands && iAmTheLeaseHolder: maybeWatchForMerge (an error is
\* fatal), then the timestamp-cache low-water mark, then the request counts.
LeaseBarriers ==
    /\ crashed = "none" /\ lpc = "barriers"
    /\ IF leaseBarrierEffects(lPrev, lNew, lEnv.leaseholderStats) # {}
       THEN \E mergeErr \in BOOLEAN :
              IF mergeErr
              THEN /\ crashed' = "maybeWatchForMerge"
                   /\ UNCHANGED <<tsCacheLow, lEffects, lpc>>
              ELSE /\ tsCacheLow' = setTimestampCacheLowWaterMark(tsCacheLow, lNew.Start)
                   /\ lEffects' = lEffects
                                     \cup leaseBarrierEffects(lPrev, lNew,
                                                              lEnv.leaseholderStats)
                   /\ lpc' = lpaNext("barriers")
                   /\ UNCHANGED crashed
       ELSE /\ lpc' = lpaNext("barriers")
            /\ UNCHANGED <<tsCacheLow, lEffects, crashed>>
    /\ UNCHANGED <<rLease, txnWaitQueueEnabled, renewableRegistered, rInstalledBy, lNew,
                   lPermitJump, lVia, lPrev, lPre, lEnv>>
    /\ UNCHANGED nonLeaseVars

\* The sanity check that the lease sequence moves in the right direction.
LeaseSeqCheck ==
    /\ crashed = "none" /\ lpc = "check"
    /\ LET c == leaseSeqCheck(lPrev, lNew, lPermitJump)
       IN  IF c # "none"
           THEN /\ crashed' = c /\ UNCHANGED lpc
           ELSE /\ lpc' = lpaNext("check") /\ UNCHANGED crashed
    /\ UNCHANGED <<rLease, tsCacheLow, txnWaitQueueEnabled, renewableRegistered,
                   rInstalledBy, lNew, lPermitJump, lVia, lPrev, lPre, lEnv,
                   lEffects>>
    /\ UNCHANGED nonLeaseVars

\* r.mu.Lock(); r.mu.state.Lease = &newLease; r.mu.Unlock().  rInstalledBy
\* records whether this was a change of hands to this replica and whether the
\* merge watch and the timestamp-cache update had been made by then.
LeaseInstall ==
    /\ crashed = "none" /\ lpc = "install"
    /\ rLease' = lNew
    /\ rInstalledBy' =
         [changingToMe |-> leaseChangingHands(lPrev, lNew) /\ iAmTheLeaseHolder(lNew),
          barriers |-> {"maybeWatchForMerge", "setTimestampCacheLowWaterMark"}
                           \subseteq lEffects]
    /\ lEffects' = lEffects \cup {"install"}
    /\ lpc' = lpaNext("install")
    /\ UNCHANGED <<tsCacheLow, txnWaitQueueEnabled, renewableRegistered, crashed, lNew,
                   lPermitJump, lVia, lPrev, lPre, lEnv>>
    /\ UNCHANGED nonLeaseVars

\* What a call on a replica with the given leaseholderStats can read of its
\* environment after the install.
LeaseAfterEnvs(leaseholderStats) ==
    { e \in [valid : BOOLEAN, validAtRenew : BOOLEAN, expirationBasedLease : BOOLEAN,
             firstRange : BOOLEAN, renewerIdle : BOOLEAN, history : BOOLEAN,
             leaseholderStats : BOOLEAN] :
        e.leaseholderStats = leaseholderStats }

\* Everything after the install: gossip, the renewable-leases registry, the
\* txn-wait queue, Raft leadership, capacity gossip, the lease history.
LeaseAfterInstall ==
    /\ crashed = "none" /\ lpc = "after"
    /\ \E env \in LeaseAfterEnvs(lEnv.leaseholderStats) :
         LET eff == leaseAfterEffects(lPrev, lNew, env)
         IN  /\ lEffects' = lEffects \cup eff
             /\ lEnv' = env
             /\ txnWaitQueueEnabled' = txnWaitQueueAfter(txnWaitQueueEnabled, eff)
             /\ renewableRegistered' =
                  (renewableRegistered \/ "renewableLeases.Store" \in eff)
    /\ lpc' = lpaNext("after")
    /\ UNCHANGED <<rLease, tsCacheLow, crashed, rInstalledBy, lNew, lPermitJump, lVia,
                   lPrev, lPre>>
    /\ UNCHANGED nonLeaseVars

\* leasePostApply returns; its locals go out of scope.
LeaseReturn ==
    /\ crashed = "none" /\ lpc = "done"
    /\ lpc' = "idle"
    /\ lNew' = ZeroLease
    /\ lPermitJump' = FALSE
    /\ lVia' = "other"
    /\ lPrev' = ZeroLease
    /\ lEnv' = NoLeaseEnv
    /\ lPre' = [lease |-> ZeroLease, tsCacheLow |-> 0, txnq |-> FALSE, renewable |-> FALSE]
    /\ lEffects' = {}
    /\ UNCHANGED <<rLease, tsCacheLow, txnWaitQueueEnabled, renewableRegistered, crashed,
                   rInstalledBy>>
    /\ UNCHANGED nonLeaseVars

\* ------------------------------------------- leasePostApply inside an apply

\* The answers leasePostApply gets when called while a result is applied: the
\* two readings of IsLeaseValid (before gossipFirstRange, before the renewable
\* leases), requiresExpiringLeaseRLocked, IsFirstRange, whether the renewer is
\* receiving, whether the lease history and the request counts are kept.  The
\* last one is a lease that is valid at the first reading and no more at the
\* second.
LeaseEnvs ==
    { NoLeaseEnv,
      [valid |-> TRUE, validAtRenew |-> TRUE, expirationBasedLease |-> TRUE,
       firstRange |-> TRUE, renewerIdle |-> TRUE, history |-> TRUE,
       leaseholderStats |-> TRUE],
      [valid |-> TRUE, validAtRenew |-> FALSE, expirationBasedLease |-> TRUE,
       firstRange |-> TRUE, renewerIdle |-> FALSE, history |-> FALSE,
       leaseholderStats |-> FALSE] }

\* The locals of a handleReplicatedEvalResult call that live across its
\* critical sections: newTruncState, the prevLease leasePostApply has read, the
\* engine snapshot computeChecksumPostApply holds (0: none).
NoLocals == [newTruncState |-> None, prevLease |-> None, snap |-> 0]

\* r.mu.Lock(); prevLease := *r.mu.state.Lease; r.mu.Unlock()
lpaReadPrev(x) == [x EXCEPT !.loc.prevLease = Some(x.st.lease)]

\* Whether the call takes the barriers: the lease changes hands to this replica.
lpaTakesBarriers(x) ==
    LET newLease == x.w.State[1].Lease[1]
    IN  leaseChangingHands(x.loc.prevLease[1], newLease) /\ iAmTheLeaseHolder(newLease)

\* The merge watch (an error is fatal), the timestamp-cache low-water mark, the
\* request counts.
lpaBarriers(x, env) ==
    LET newLease == x.w.State[1].Lease[1]
    IN  IF env.watchErr
        THEN [x EXCEPT !.crash = "maybeWatchForMerge"]
        ELSE [x EXCEPT
                !.st.tsCacheLow = setTimestampCacheLowWaterMark(x.st.tsCacheLow,
                                                               newLease.Start),
                !.eff = x.eff \cup leaseBarrierEffects(x.loc.prevLease[1], newLease,
                                                       env.lease.leaseholderStats)]

\* The sequence check (fatal), then r.mu.Lock(); r.mu.state.Lease = &newLease;
\* r.mu.Unlock().
lpaInstall(x) ==
    LET newLease == x.w.State[1].Lease[1]
        prevLease == x.loc.prevLease[1]
        c == leaseSeqCheck(prevLease, newLease, PermitJumpOnApply)
    IN  IF c # "none" THEN [x EXCEPT !.crash = c]
        ELSE [x EXCEPT
                !.st.lease = newLease,
                !.st.installedBy =
                    [changingToMe |-> leaseChangingHands(prevLease, newLease)
                                        /\ iAmTheLeaseHolder(newLease),
                     barriers |-> {"maybeWatchForMerge", "setTimestampCacheLowWaterMark"}
                                      \subseteq x.eff],
                !.eff = x.eff \cup {"install"}]

\* Everything after the install, the return, and rResult.State.Lease = nil.
lpaAfterInstall(x, env) ==
    LET s == x.w.State[1]
        eff == leaseAfterEffects(x.loc.prevLease[1], s.Lease[1], env.lease)
    IN  [x EXCEPT
           !.st.txnq = txnWaitQueueAfter(x.st.txnq, eff),
           !.st.renewable = (x.st.renewable \/ "renewableLeases.Store" \in eff),
           !.w = [x.w EXCEPT !.State = Some([s EXCEPT !.Lease = None])],
           !.loc.prevLease = None,
           !.eff = x.eff \cup eff]

\* ----------------------------------------------------- computeChecksumPostApply

\* batcheval.ReplicaChecksumVersion
ReplicaChecksumVersion == 3

\* The checksum IDs drawn.
ChecksumIDs == {1, 2}

\* batcheval.ReplicaChecksumGCInterval, scaled down.
ReplicaChecksumGCInterval == 1

\* Mutant of gcOldChecksumEntriesLocked: an unset gcTimestamp counts as passed.
gcOldChecksumEntriesLockedUnsetToo(cs, now) ==
    [id \in DOMAIN cs |->
        IF cs[id] # None /\ now > cs[id][1].gcTimestamp THEN None ELSE cs[id]]

\* gcOldChecksumEntriesLocked: entries whose gcTimestamp is set and passed go.
gcOldChecksumEntriesLocked(cs, now) ==
    [id \in DOMAIN cs |->
        IF cs[id] # None /\ cs[id][1].gcTimestamp # 0 /\ now > cs[id][1].gcTimestamp
        THEN None ELSE cs[id]]

\* computeChecksumDone: the entry, if there is one, gets the result and a
\* gcTimestamp, and its notify channel is closed.
computeChecksumDone(cs, id, result, now) ==
    IF cs[id] # None
    THEN [cs EXCEPT ![id] = Some([cs[id][1] EXCEPT
                                     !.checksum = result,
                                     !.gcTimestamp = now + ReplicaChecksumGCInterval,
                                     !.notify.closed = TRUE])]
    ELSE cs

\* make(chan struct{}): the channel numbered n, open.
NewChan(n) == [ch |-> n, closed |-> FALSE]

\* Mutant of checksumNotify: a new channel is made whatever the map holds.
checksumNotifyAlwaysNew(c, fresh) == fresh

\* The notification channel of the entry to install: a new one if there is no
\* record of the ID, the existing one if a collector is waiting on it.
checksumNotify(c, fresh) == IF c = None THEN fresh ELSE c[1].notify

\* Mutant of checksumDuplicate: an entry that already has its digest is not a
\* duplicate.
checksumDuplicateUnlessDone(c) == c # None /\ c[1].started /\ c[1].checksum = "nil"

\* The second apply of one checksum ID: there is an entry and it is started.
checksumDuplicate(c) == c # None /\ c[1].started

\* Mutant of checksumVersionAbort: every version is accepted.
checksumVersionAbortNever(version) == FALSE

\* cc.Version != batcheval.ReplicaChecksumVersion
checksumVersionAbort(version) == version # ReplicaChecksumVersion

\* A call of computeChecksumDone on the replica st.
markDone(st, id, result, now) ==
    [st EXCEPT !.checksums = computeChecksumDone(st.checksums, id, result, now),
               !.doneCount[id] = @ + 1]

\* Mutant of taskNotRunDone: the checksum is not marked done.
taskNotRunNeverDone(st, id, now) == st

\* RunAsyncTask returned an error: computeChecksumDone(ctx, cc.ChecksumID, nil, nil).
taskNotRunDone(st, id, now) == markDone(st, id, "nil", now)

\* Mutant of taskNotRunClose: the snapshot is left open.
taskNotRunLeaksSnapshot(st, snap) == st

\* RunAsyncTask returned an error: the deferred snap.Close() runs at the return.
taskNotRunClose(st, snap) == [st EXCEPT !.snapshots = @ \ {snap}]

\* The first critical section of computeChecksumPostApply: a started entry under
\* the same ID is fatal; otherwise old entries are collected and a started entry
\* is installed, on the channel a collector waits on or on a new one.
ccpaInstall(x, env) ==
    LET id == x.w.ComputeChecksum[1].ChecksumID
        c == x.st.checksums[id]
        notify == checksumNotify(c, NewChan(x.st.chanCount + 1))
        made == IF notify.ch > x.st.chanCount THEN 1 ELSE 0
        cs1 == gcOldChecksumEntriesLocked(x.st.checksums, env.now)
    IN  IF checksumDuplicate(c)
        THEN [x EXCEPT !.crash = "duplicated checksum ID"]
        ELSE [x EXCEPT
                !.st.chanCount = x.st.chanCount + made,
                !.st.checksums = [cs1 EXCEPT ![id] = Some([started |-> TRUE,
                                                            notify |-> notify,
                                                            checksum |-> "nil",
                                                            gcTimestamp |-> 0])],
                !.st.doneCount[id] = 0]

\* The version differs: computeChecksumDone with a nil digest, and the return.
ccpaMismatch(x, env) ==
    [x EXCEPT !.st = markDone(x.st, x.w.ComputeChecksum[1].ChecksumID, "nil", env.now),
              !.w = [x.w EXCEPT !.ComputeChecksum = None],
              !.eff = x.eff \cup {"incompatible ComputeChecksum versions"}]

\* snap := r.store.engine.NewSnapshot(), and the checkpoint if asked for.  The
\* snapshot is named by the number of the entry's notification channel.
ccpaSnapshot(x) ==
    LET cc == x.w.ComputeChecksum[1]
        snap == x.st.checksums[cc.ChecksumID][1].notify.ch
    IN  [x EXCEPT !.st.snapshots = x.st.snapshots \cup {snap},
                  !.loc.snap = snap,
                  !.eff = x.eff \cup {"NewSnapshot"}
                            \cup (IF cc.Checkpoint THEN {"CreateCheckpoint"} ELSE {})]

\* stopper.RunAsyncTask: the task is launched with the snapshot and the call
\* returns, or the stopper refuses and the call goes on to its error branch.
ccpaRunTask(x, env) ==
    IF env.taskErr
    THEN [x EXCEPT !.eff = x.eff \cup {"could not run async checksum"}]
    ELSE [x EXCEPT
            !.st.tasks = x.st.tasks \cup {[id |-> x.w.ComputeChecksum[1].ChecksumID,
                                           snap |-> x.loc.snap, done |-> FALSE]},
            !.w = [x.w EXCEPT !.ComputeChecksum = None],
            !.loc.snap = 0,
            !.eff = x.eff \cup {"RunAsyncTask"}]

\* The error branch: computeChecksumDone with a nil digest.
ccpaNotRun(x, env) ==
    [x EXCEPT !.st = taskNotRunDone(x.st, x.w.ComputeChecksum[1].ChecksumID, env.now)]

\* The return from the error branch: the deferred snap.Close().
ccpaClose(x) ==
    [x EXCEPT !.st = taskNotRunClose(x.st, x.loc.snap),
              !.w = [x.w EXCEPT !.ComputeChecksum = None],
              !.loc.snap = 0]

\* The registration step of Replica.getChecksum, under r.mu: old entries are
\* collected and, if there is no entry for the ID, one is made that is not
\* started, with a new notification channel and the context's deadline (0: none)
\* as its gcTimestamp.
getChecksumRegister(st, id, now, deadline) ==
    LET cs1 == gcOldChecksumEntriesLocked(st.checksums, now)
    IN  IF cs1[id] # None THEN [st EXCEPT !.checksums = cs1]
        ELSE [st EXCEPT !.checksums =
                            [cs1 EXCEPT ![id] = Some([started |-> FALSE,
                                                      notify |-> NewChan(st.chanCount + 1),
                                                      checksum |-> "nil",
                                                      gcTimestamp |-> deadline])],
                        !.chanCount = st.chanCount + 1]

\* ---------------------------------------------- storagepb.ReplicatedEvalResult

\* The leases drawn inside a committed result: an epoch lease of this store or
\* an expiration lease of the other store, of any sequence from 1.
ApplyLeases ==
    { l \in Leases : /\ l.Sequence >= 1 /\ l.Start = 1
                     /\ \/ l.StoreID = MyStoreID /\ l.Epoch = 1
                        \/ l.StoreID # MyStoreID /\ l.Expiration = 3 }

\* ReplicaStates with exactly one field set.
SingleFieldStates ==
    { [ZeroReplicaState EXCEPT !.RaftAppliedIndex = 1],
      [ZeroReplicaState EXCEPT !.LeaseAppliedIndex = 1],
      [ZeroReplicaState EXCEPT !.Desc = Some("desc2")],
      [ZeroReplicaState EXCEPT !.UsingAppliedStateKey = TRUE] }
    \cup { [ZeroReplicaState EXCEPT !.Lease = Some(l)] : l \in ApplyLeases }
    \cup { [ZeroReplicaState EXCEPT !.TruncatedState = Some([Index |-> i])] : i \in {1, 2} }
    \cup { [ZeroReplicaState EXCEPT !.GCThreshold = Some(t)] : t \in {0, 1} }
    \cup { [ZeroReplicaState EXCEPT !.Stats = Some(v)] : v \in {0, 1} }
    \cup { [ZeroReplicaState EXCEPT !.TxnSpanGCThreshold = Some(t)] : t \in {0, 1} }

\* ReplicatedEvalResults with exactly one field set; for State, a pointer to a
\* zero ReplicaState or to one with a single field set.
SingleFieldRERs ==
    { [ZeroRER EXCEPT !.IsLeaseRequest = TRUE],
      [ZeroRER EXCEPT !.Timestamp = 1],
      [ZeroRER EXCEPT !.PrevLeaseProposal = Some(1)],
      [ZeroRER EXCEPT !.BlockReads = TRUE],
      [ZeroRER EXCEPT !.SuggestedCompactions = <<"compaction">>],
      [ZeroRER EXCEPT !.Split = Some("split")],
      [ZeroRER EXCEPT !.Merge = Some("merge")],
      [ZeroRER EXCEPT !.AddSSTable = Some("sst")],
      [ZeroRER EXCEPT !.State = Some(ZeroReplicaState)] }
    \cup { [ZeroRER EXCEPT !.Delta = d] : d \in {-1, 1, 2} }
    \cup { [ZeroRER EXCEPT !.DeprecatedDelta = Some(d)] : d \in {0, 1} }
    \cup { [ZeroRER EXCEPT !.RaftLogDelta = d] : d \in {-2, -1, 1, 2} }
    \cup { [ZeroRER EXCEPT !.ChangeReplicas = Some([ChangeType |-> t, StoreID |-> st])] :
             t \in {"ADD_REPLICA", "REMOVE_REPLICA"}, st \in {1, 2} }
    \cup { [ZeroRER EXCEPT !.ComputeChecksum =
                               Some([ChecksumID |-> id, Version |-> v, Checkpoint |-> FALSE])] :
             id \in ChecksumIDs, v \in {ReplicaChecksumVersion, ReplicaChecksumVersion - 1} }
    \cup { [ZeroRER EXCEPT !.ComputeChecksum =
                               Some([ChecksumID |-> 1, Version |-> v, Checkpoint |-> TRUE])] :
             v \in {ReplicaChecksumVersion, ReplicaChecksumVersion - 1} }
    \cup { [ZeroRER EXCEPT !.State = Some(st)] : st \in SingleFieldStates }

\* Results with several fields set: only updates that are too frequent for a
\* state assertion (stats, truncation, log size, compactions, a zero Stats);
\* those with the applied-state-key flag; stats with a split; truncation with
\* a new descriptor.
CombinedRERs ==
    { [ZeroRER EXCEPT !.Delta = 1, !.RaftLogDelta = 1,
                      !.SuggestedCompactions = <<"compaction">>,
                      !.State = Some([ZeroReplicaState EXCEPT
                                        !.TruncatedState = Some([Index |-> 1]),
                                        !.Stats = Some(0)])],
      [ZeroRER EXCEPT !.Delta = 1,
                      !.State = Some([ZeroReplicaState EXCEPT
                                        !.TruncatedState = Some([Index |-> 1]),
                                        !.UsingAppliedStateKey = TRUE])],
      [ZeroRER EXCEPT !.Delta = 1, !.Split = Some("split")],
      [ZeroRER EXCEPT !.State = Some([ZeroReplicaState EXCEPT
                                        !.TruncatedState = Some([Index |-> 2]),
                                        !.Desc = Some("desc2")])] }

\* The results drawn for an apply.
RERInputs == SingleFieldRERs \cup {ZeroRER} \cup CombinedRERs

\* RaftLogQueueStaleSize, scaled down.
RaftLogQueueStaleSize == 2

\* The environment of one handleReplicatedEvalResult call: what the external
\* collaborators answer.  sizeHint: the split or merge queue is poked
\* (needs{Split,Merge}BySize and the throttle admits); truncErr, truncSize:
\* sideloaded.TruncateTo; mergeErr: store.MergeRange; watchErr: maybeWatchForMerge;
\* lease: see LeaseEnvs; now: timeutil.Now(); taskErr: Stopper.RunAsyncTask.
\* indexed: the caller passes the command's applied indices rather than zeroes.
\* An answer varies only under a result that asks for it; the size hint and
\* the indices vary only under the empty result and the one with a stats delta
\* of 1 alone.
ApplyEnvs(rResult) ==
    LET st == IF rResult.State = None THEN ZeroReplicaState ELSE rResult.State[1]
        statsOnly == rResult \in {ZeroRER, [ZeroRER EXCEPT !.Delta = 1]}
    IN  [ sizeHint : IF statsOnly THEN {"none", "split", "merge"} ELSE {"none"},
          indexed : IF statsOnly THEN BOOLEAN ELSE {TRUE},
          truncErr : IF st.TruncatedState # None THEN BOOLEAN ELSE {FALSE},
          truncSize : IF st.TruncatedState # None THEN {0, 1} ELSE {0},
          mergeErr : IF rResult.Merge # None THEN BOOLEAN ELSE {FALSE},
          watchErr : IF st.Lease # None THEN BOOLEAN ELSE {FALSE},
          lease : IF st.Lease # None THEN LeaseEnvs ELSE {NoLeaseEnv},
          now : IF rResult.ComputeChecksum # None THEN {1, 3} ELSE {1},
          taskErr : IF rResult.ComputeChecksum # None THEN BOOLEAN ELSE {FALSE} ]

\* --------------------------------------------------- handleReplicatedEvalResult

\* The fields for which no action is taken are zeroed; BlockReads takes
\* readOnlyCmdMu for the rest of the call and is zeroed.
hrerObservational(x) ==
    [x EXCEPT !.w = [x.w EXCEPT !.IsLeaseRequest = FALSE, !.Timestamp = 0,
                                !.PrevLeaseProposal = None, !.BlockReads = FALSE],
              !.eff = x.eff \cup (IF x.w.BlockReads THEN {"readOnlyCmdMu.Lock"} ELSE {})]

\* Mutant of hrerStats: the delta replaces the range stats instead of being
\* added to them.
hrerStatsAssigns(x, raftAppliedIndex, leaseAppliedIndex) ==
    [x EXCEPT !.st.rep = [x.st.rep EXCEPT !.Stats = x.w.Delta]]

\* Under r.mu: the MVCC stats and the Raft portion of the ReplicaState.
hrerStats(x, raftAppliedIndex, leaseAppliedIndex) ==
    [x EXCEPT
       !.st.rep = [x.st.rep EXCEPT
                     !.Stats = x.st.rep.Stats + x.w.Delta,
                     !.RaftAppliedIndex =
                         IF raftAppliedIndex # 0 THEN raftAppliedIndex
                         ELSE x.st.rep.RaftAppliedIndex,
                     !.LeaseAppliedIndex =
                         IF leaseAppliedIndex # 0 THEN leaseAppliedIndex
                         ELSE x.st.rep.LeaseAppliedIndex]]

\* After r.mu is released: the same delta for the store metrics; the split and
\* merge queues are poked when the size says so and the throttle admits.
hrerMetrics(x, env) ==
    [x EXCEPT
       !.st.storeStats = x.st.storeStats + x.w.Delta,
       !.w = [x.w EXCEPT !.Delta = 0],
       !.eff = x.eff \cup {"metrics.addMVCCStats"}
                 \cup (IF env.sizeHint = "split" THEN {"splitQueue.MaybeAddAsync"} ELSE {})
                 \cup (IF env.sizeHint = "merge" THEN {"mergeQueue.MaybeAddAsync"} ELSE {})]

\* Mutant of truncateBound: the truncated index itself is kept.
truncateBoundExclusive(index) == index

\* newTruncState.Index+1: raftEntryCache.Clear and sideloaded.TruncateTo drop
\* what lies below the bound they are given.
truncateBound(index) == index + 1

\* newTruncState is taken out of rResult.State and installed under r.mu.
hrerTruncatedState(x) ==
    LET s == x.w.State[1]
    IN  [x EXCEPT !.st.rep.TruncatedState = s.TruncatedState,
                  !.loc.newTruncState = s.TruncatedState,
                  !.w = [x.w EXCEPT !.State = Some([s EXCEPT !.TruncatedState = None])]]

\* r.store.raftEntryCache.Clear(r.RangeID, newTruncState.Index+1)
hrerTruncCache(x) ==
    [x EXCEPT !.st.rep.raftEntryCacheClearedBelow =
                  truncateBound(x.loc.newTruncState[1].Index),
              !.eff = x.eff \cup {"raftEntryCache.Clear"}]

\* r.raftMu.sideloaded.TruncateTo(ctx, newTruncState.Index+1): the reclaimed
\* size is taken off RaftLogDelta unless TruncateTo failed.
hrerTruncSideloaded(x, env) ==
    [x EXCEPT
       !.st.rep.sideloadedTruncatedBelow =
           IF env.truncErr THEN x.st.rep.sideloadedTruncatedBelow
           ELSE truncateBound(x.loc.newTruncState[1].Index),
       !.w = [x.w EXCEPT !.RaftLogDelta = IF env.truncErr THEN x.w.RaftLogDelta
                                          ELSE x.w.RaftLogDelta - env.truncSize],
       !.loc.newTruncState = None,
       !.eff = x.eff \cup {"sideloaded.TruncateTo"}]

\* Mutant of hrerStateTrivial: a zero-valued State.Stats is left in place.
hrerStateTrivialKeepsZeroStats(x) ==
    LET s1 == x.w.State[1]
        s3 == IF s1.UsingAppliedStateKey /\ x.st.rep.UsingAppliedStateKey
              THEN [s1 EXCEPT !.UsingAppliedStateKey = FALSE] ELSE s1
    IN  [x EXCEPT !.w = [x.w EXCEPT
                           !.State = IF s3 = ZeroReplicaState THEN None ELSE Some(s3)]]

\* The rest of the first pass over rResult.State: a zero-valued Stats is
\* dropped; UsingAppliedStateKey is dropped if, read under r.mu, the replica
\* already has it; a State that has become zero is set to nil.
hrerStateTrivial(x) ==
    LET s1 == x.w.State[1]
        s2 == IF s1.Stats # None /\ s1.Stats[1] = 0 THEN [s1 EXCEPT !.Stats = None] ELSE s1
        s3 == IF s2.UsingAppliedStateKey /\ x.st.rep.UsingAppliedStateKey
              THEN [s2 EXCEPT !.UsingAppliedStateKey = FALSE] ELSE s2
    IN  [x EXCEPT !.w = [x.w EXCEPT
                           !.State = IF s3 = ZeroReplicaState THEN None ELSE Some(s3)]]

\* Mutant of ClampNonNegative: the value is kept as it is.
ClampNever(v) == v

\* max(v, 0)
ClampNonNegative(v) == IF v < 0 THEN 0 ELSE v

\* Mutant of checkRaftLog: the growth has to be above the threshold.
checkRaftLogAbove(raftLogSize, raftLogLastCheckSize) ==
    raftLogSize - raftLogLastCheckSize > RaftLogQueueStaleSize

\* Whether the log has grown by RaftLogQueueStaleSize since the last check.
checkRaftLog(raftLogSize, raftLogLastCheckSize) ==
    raftLogSize - raftLogLastCheckSize >= RaftLogQueueStaleSize

\* Mutant of hrerRaftLog: the delta is added to raftLogSize only.
hrerRaftLogSizeOnly(x) ==
    LET r == x.st.rep
    IN  IF x.w.RaftLogDelta # 0
        THEN [x EXCEPT
                !.st.rep.raftLogSize = ClampNonNegative(r.raftLogSize + x.w.RaftLogDelta),
                !.w = [x.w EXCEPT !.RaftLogDelta = 0]]
        ELSE IF checkRaftLog(r.raftLogSize, r.raftLogLastCheckSize)
        THEN [x EXCEPT !.st.rep.raftLogLastCheckSize = r.raftLogSize,
                       !.eff = x.eff \cup {"raftLogQueue.MaybeAddAsync"}]
        ELSE x

\* Under r.mu: RaftLogDelta is added to raftLogSize and raftLogLastCheckSize,
\* each clamped at zero; without a delta, the Raft log queue is poked once the
\* size has grown by RaftLogQueueStaleSize since the last check.
hrerRaftLog(x) ==
    LET r == x.st.rep
    IN  IF x.w.RaftLogDelta # 0
        THEN [x EXCEPT
                !.st.rep.raftLogSize = ClampNonNegative(r.raftLogSize + x.w.RaftLogDelta),
                !.st.rep.raftLogLastCheckSize =
                    ClampNonNegative(r.raftLogLastCheckSize + x.w.RaftLogDelta),
                !.w = [x.w EXCEPT !.RaftLogDelta = 0]]
        ELSE IF checkRaftLog(r.raftLogSize, r.raftLogLastCheckSize)
        THEN [x EXCEPT !.st.rep.raftLogLastCheckSize = r.raftLogSize,
                       !.eff = x.eff \cup {"raftLogQueue.MaybeAddAsync"}]
        ELSE x

\* The suggested compactions go to the compactor.
hrerCompactions(x) ==
    [x EXCEPT !.w = [x.w EXCEPT !.SuggestedCompactions = <<>>],
              !.eff = x.eff \cup (IF x.w.SuggestedCompactions # <<>>
                                  THEN {"compactor.Suggest"} ELSE {})]

\* Mutant of hrerShouldAssert: every command asks for the state assertion.
hrerShouldAssertAlways(x) == [x EXCEPT !.shouldAssert = TRUE]

\* Mutant of hrerShouldAssert: no command asks for the state assertion.
hrerShouldAssertNever(x) == [x EXCEPT !.shouldAssert = FALSE]

\* shouldAssert = !rResult.Equal(storagepb.ReplicatedEvalResult{})
hrerShouldAssert(x) == [x EXCEPT !.shouldAssert = (x.w # ZeroRER)]

\* Mutant of mergeRangeFailed: the error is logged and the handler goes on.
mergeRangeFailedLogsOnly(crash) == "none"

\* A MergeRange error is fatal: the in-memory state has diverged from the
\* on-disk state.
mergeRangeFailed(crash) == crash

\* Split, then Merge; a failed MergeRange is fatal.
hrerSplitMerge(x, env) ==
    LET x1 == IF x.w.Split # None
              THEN [x EXCEPT !.w = [x.w EXCEPT !.Split = None],
                             !.eff = x.eff \cup {"splitPostApply"}]
              ELSE x
    IN  IF x1.w.Merge = None THEN x1
        ELSE IF env.mergeErr
        THEN [x1 EXCEPT !.crash =
                            mergeRangeFailed("failed to update store after merging range"),
                        !.eff = x1.eff \cup {"store.MergeRange"}]
        ELSE [x1 EXCEPT !.w = [x1.w EXCEPT !.Merge = None],
                        !.eff = x1.eff \cup {"store.MergeRange"}]

\* newDesc: r.setDesc(ctx, newDesc); rResult.State.Desc = nil
hrerDesc(x) ==
    LET s == x.w.State[1]
    IN  [x EXCEPT !.st.rep.Desc = s.Desc[1],
                  !.w = [x.w EXCEPT !.State = Some([s EXCEPT !.Desc = None])],
                  !.eff = x.eff \cup {"setDesc"}]

\* newThresh := rResult.State.GCThreshold: assigned under r.mu if non-zero,
\* then cleared.
hrerGCThreshold(x) ==
    LET s == x.w.State[1]
    IN  [x EXCEPT !.st.rep.GCThreshold =
                      IF s.GCThreshold[1] # 0 THEN s.GCThreshold[1]
                      ELSE x.st.rep.GCThreshold,
                  !.w = [x.w EXCEPT !.State = Some([s EXCEPT !.GCThreshold = None])]]

\* newThresh := rResult.State.TxnSpanGCThreshold: assigned under r.mu if
\* non-zero, then cleared.
hrerTxnSpanGCThreshold(x) ==
    LET s == x.w.State[1]
    IN  [x EXCEPT !.st.rep.TxnSpanGCThreshold =
                      IF s.TxnSpanGCThreshold[1] # 0 THEN s.TxnSpanGCThreshold[1]
                      ELSE x.st.rep.TxnSpanGCThreshold,
                  !.w = [x.w EXCEPT !.State = Some([s EXCEPT !.TxnSpanGCThreshold = None])]]

\* UsingAppliedStateKey sets the replica's flag under r.mu and is cleared.
hrerUsingAppliedStateKey(x) ==
    LET s == x.w.State[1]
    IN  [x EXCEPT !.st.rep.UsingAppliedStateKey = TRUE,
                  !.w = [x.w EXCEPT !.State = Some([s EXCEPT
                                                      !.UsingAppliedStateKey = FALSE])]]

\* Whether the second pass over rResult.State has a field left to handle.
hrerStateRestLeft(x) ==
    /\ x.w.State # None
    /\ LET s == x.w.State[1]
       IN  \/ s.Desc # None \/ s.Lease # None \/ s.GCThreshold # None
           \/ s.TxnSpanGCThreshold # None \/ s.UsingAppliedStateKey

\* The end of the second pass: a State that has become zero is set to nil.
hrerStateRest(x) ==
    IF x.crash = "none" /\ ~hrerStateRestLeft(x)
       /\ x.w.State # None /\ x.w.State[1] = ZeroReplicaState
    THEN [x EXCEPT !.w = [x.w EXCEPT !.State = None]]
    ELSE x

\* ChangeReplicas: a replica that is being removed goes to the replica GC queue.
hrerChangeReplicas(x) ==
    LET change == x.w.ChangeReplicas[1]
    IN  [x EXCEPT
           !.w = [x.w EXCEPT !.ChangeReplicas = None],
           !.eff = x.eff \cup (IF change.ChangeType = "REMOVE_REPLICA"
                                  /\ MyStoreID = change.StoreID
                               THEN {"replicaGCQueue.AddAsync"} ELSE {})]

\* Mutant of hrerFinal: no check at the end.
hrerFinalNoCheck(x) == x

\* The final check: whatever is left of rResult is an unhandled field.
hrerFinal(x) ==
    IF x.w # ZeroRER
    THEN [x EXCEPT !.crash = "unhandled field in ReplicatedEvalResult"]
    ELSE x

\* The sections of handleReplicatedEvalResult in the order of the source; a
\* section is the code up to and including one critical section or one call on
\* a collaborator that keeps state.  truncState, leaseRead and ccInstall are
\* the first sections of the truncation, of leasePostApply and of
\* computeChecksumPostApply.
hrerSections ==
    <<"lock", "stats", "metrics", "truncState", "stateTrivial", "raftLog", "splitMerge",
      "desc", "leaseRead", "gcThreshold", "txnSpanGCThreshold", "usingAppliedStateKey",
      "changeReplicas", "ccInstall", "final">>

\* Whether the working copy x.w makes the call enter the section.
hrerHasWork(p, x) ==
    LET s == IF x.w.State = None THEN ZeroReplicaState ELSE x.w.State[1]
    IN  CASE p = "lock" -> x.w.BlockReads
          [] p = "truncState" -> s.TruncatedState # None
          [] p = "stateTrivial" -> x.w.State # None
          [] p = "splitMerge" -> x.w.Split # None \/ x.w.Merge # None
          [] p = "desc" -> s.Desc # None
          [] p = "leaseRead" -> s.Lease # None
          [] p = "gcThreshold" -> s.GCThreshold # None
          [] p = "txnSpanGCThreshold" -> s.TxnSpanGCThreshold # None
          [] p = "usingAppliedStateKey" -> s.UsingAppliedStateKey
          [] p = "changeReplicas" -> x.w.ChangeReplicas # None
          [] p = "ccInstall" -> x.w.ComputeChecksum # None
          [] OTHER -> TRUE

\* The first section from position i of hrerSections on that has work; the
\* final check always has.
hrerFrom(i, x) ==
    hrerSections[CHOOSE j \in i .. Len(hrerSections) :
                    /\ hrerHasWork(hrerSections[j], x)
                    /\ \A k \in i .. j - 1 : ~hrerHasWork(hrerSections[k], x)]

\* The first section after p that has work.
hrerAfter(p, x) ==
    hrerFrom(1 + CHOOSE i \in 1 .. Len(hrerSections) : hrerSections[i] = p, x)

\* Where the call goes after section p has left x: into the next section of a
\* truncation, of leasePostApply or of computeChecksumPostApply, to the next
\* section that has work, or, after the final check, to its return.
hrerNext(p, x) ==
    CASE p = "truncState" -> "truncCache"
      [] p = "truncCache" -> "truncSideloaded"
      [] p = "truncSideloaded" -> hrerAfter("truncState", x)
      [] p = "leaseRead" -> IF lpaTakesBarriers(x) THEN "leaseBarriers" ELSE "leaseInstall"
      [] p = "leaseBarriers" -> "leaseInstall"
      [] p = "leaseInstall" -> "leaseAfter"
      [] p = "leaseAfter" -> hrerAfter("leaseRead", x)
      [] p = "ccInstall" -> IF checksumVersionAbort(x.w.ComputeChecksum[1].Version)
                            THEN "ccMismatch" ELSE "ccSnapshot"
      [] p = "ccSnapshot" -> "ccRunTask"
      [] p = "ccRunTask" -> IF x.loc.snap # 0 THEN "ccNotRun" ELSE hrerAfter("ccInstall", x)
      [] p = "ccNotRun" -> "ccClose"
      [] p \in {"ccMismatch", "ccClose"} -> hrerAfter("ccInstall", x)
      [] p = "final" -> "return"
      [] OTHER -> hrerAfter(p, x)

\* What section p does to x, the working state of the call: the replica as it
\* is now (st), the working copy of rResult (w), the fatal or "none" (crash),
\* shouldAssert, the collaborators called (eff), the locals (loc).
hrerSection(p, x, raftAppliedIndex, leaseAppliedIndex, env) ==
    CASE p = "lock" -> hrerObservational(x)
      [] p = "stats" -> hrerStats(hrerObservational(x), raftAppliedIndex, leaseAppliedIndex)
      [] p = "metrics" -> hrerMetrics(x, env)
      [] p = "truncState" -> hrerTruncatedState(x)
      [] p = "truncCache" -> hrerTruncCache(x)
      [] p = "truncSideloaded" -> hrerTruncSideloaded(x, env)
      [] p = "stateTrivial" -> hrerStateTrivial(x)
      [] p = "raftLog" -> hrerShouldAssert(hrerCompactions(hrerRaftLog(x)))
      [] p = "splitMerge" -> hrerSplitMerge(x, env)
      [] p = "desc" -> hrerStateRest(hrerDesc(x))
      [] p = "leaseRead" -> lpaReadPrev(x)
      [] p = "leaseBarriers" -> lpaBarriers(x, env)
      [] p = "leaseInstall" -> lpaInstall(x)
      [] p = "leaseAfter" -> hrerStateRest(lpaAfterInstall(x, env))
      [] p = "gcThreshold" -> hrerStateRest(hrerGCThreshold(x))
      [] p = "txnSpanGCThreshold" -> hrerStateRest(hrerTxnSpanGCThreshold(x))
      [] p = "usingAppliedStateKey" -> hrerStateRest(hrerUsingAppliedStateKey(x))
      [] p = "changeReplicas" -> hrerChangeReplicas(x)
      [] p = "ccInstall" -> ccpaInstall(x, env)
      [] p = "ccMismatch" -> ccpaMismatch(x, env)
      [] p = "ccSnapshot" -> ccpaSnapshot(x)
      [] p = "ccRunTask" -> ccpaRunTask(x, env)
      [] p = "ccNotRun" -> ccpaNotRun(x, env)
      [] p = "ccClose" -> ccpaClose(x)
      [] p = "final" -> hrerFinal(x)

\* ------------------------------------------------------------ applying results

\* The replica as the appliers see it.
ReplicaSt ==
    [rep |-> rep, lease |-> rLease, tsCacheLow |-> tsCacheLow,
     txnq |-> txnWaitQueueEnabled, renewable |-> renewableRegistered,
     installedBy |-> rInstalledBy, checksums |-> checksums, tasks |-> tasks,
     chanCount |-> chanCount, storeStats |-> storeStats, snapshots |-> snapshots,
     doneCount |-> doneCount]

\* The replica takes the state a section left, or stops at its fatal.
InstallReplicaSt(st, crash) ==
    /\ rep' = st.rep
    /\ rLease' = st.lease
    /\ tsCacheLow' = st.tsCacheLow
    /\ txnWaitQueueEnabled' = st.txnq
    /\ renewableRegistered' = st.renewable
    /\ rInstalledBy' = st.installedBy
    /\ checksums' = st.checksums
    /\ tasks' = st.tasks
    /\ chanCount' = st.chanCount
    /\ storeStats' = st.storeStats
    /\ snapshots' = st.snapshots
    /\ doneCount' = st.doneCount
    /\ crashed' = crash

\* aLast while no applier call has ended since the last one began.
NoCall ==
    [fn |-> "none", pre |-> None, input |-> None, crash |-> "none", final |-> None,
     shouldAssert |-> FALSE, eff |-> {}]

\* The record of an applier call at its return or its fatal: the replica
\* before (pre), the result as it came (input) and as the call left it (final),
\* shouldAssert, the collaborators called and what they answered, the handlers
\* called in order (steps).
CallRecord(cmd, crash) ==
    [fn |-> cmd.fn, pre |-> Some(cmd.pre), input |-> Some(cmd.rResult), crash |-> crash,
     final |-> Some(cmd.w), shouldAssert |-> cmd.shouldAssert, eff |-> cmd.eff,
     truncateTo |-> [err |-> cmd.env.truncErr, size |-> cmd.env.truncSize],
     mergeRange |-> [err |-> cmd.env.mergeErr],
     checksumEnv |-> [now |-> cmd.env.now, taskErr |-> cmd.env.taskErr],
     local |-> cmd.lResult, steps |-> cmd.steps]

\* An applier is called with a committed command: fn on a replicated result
\* drawn from inputs and a local result drawn from locals.  The applied indices
\* are the command's (the count of applies so far, plus one) or zero.  The
\* call's frame is aCmd; deltaSum takes the command's stats delta.
CallApplier(fn, inputs, locals) ==
    /\ crashed = "none" /\ apc = "idle" /\ applyCount < MaxApplies
    /\ \E rResult \in inputs, lResult \in locals :
       \E env \in ApplyEnvs(rResult) :
         /\ deltaSum' = deltaSum + rResult.Delta
         /\ aCmd' = Some([fn |-> fn, rResult |-> rResult, lResult |-> lResult,
                          env |-> env, pre |-> ReplicaSt,
                          idx |-> IF env.indexed THEN applyCount + 1 ELSE 0,
                          w |-> rResult, shouldAssert |-> FALSE, eff |-> {},
                          loc |-> NoLocals, steps |-> <<"handleReplicatedEvalResult">>])
         /\ apc' = hrerFrom(1, [w |-> rResult])
    /\ applyCount' = applyCount + 1
    /\ aLast' = NoCall
    /\ UNCHANGED <<rep, checksums, tasks, chanCount, storeStats, snapshots, doneCount>>
    /\ UNCHANGED <<readOnlyCmdMu, leaseVars, proposalVars, evalVars, sstVars>>

\* One committed command's replicated result, drawn from inputs, is handed to
\* handleReplicatedEvalResult.
HandleReplicatedOf(inputs) == CallApplier("handleReplicatedEvalResult", inputs, {None})

\* Any of the results drawn is applied.
HandleReplicated == HandleReplicatedOf(RERInputs)

\* Mutant of readOnlyCmdMuLock: the mutex is not taken.
readOnlyCmdMuLockSkipped(mu) == mu

\* r.readOnlyCmdMu.Lock(), once the mutex is free.
readOnlyCmdMuLock(mu) == [mu EXCEPT !.writer = TRUE]

\* r.readOnlyCmdMu.Unlock()
readOnlyCmdMuUnlock(mu) == [mu EXCEPT !.writer = FALSE]

\* Mutant of AfterReplicated: the local result is skipped.
AfterReplicatedSkipsLocal(lResult, shouldAssert) ==
    IF shouldAssert THEN "assert" ELSE "idle"

\* Where the caller goes on after handleReplicatedEvalResult has returned:
\* handleEvalResultRaftMuLocked to the local result if there is one, else to the
\* state assertion if it is asked for; any other caller is done.
AfterReplicated(lResult, shouldAssert) ==
    IF lResult # None THEN "local"
    ELSE IF shouldAssert THEN "assert" ELSE "idle"

\* Where handleEvalResultRaftMuLocked goes on after handleLocalEvalResult.
AfterLocal(cmd) == IF cmd.shouldAssert THEN "assert" ELSE "idle"

\* The call whose frame is cmd has run a section that left x and goes on at
\* next: the replica takes x.st, the frame takes the working copy and the
\* locals; a fatal ends the process there; the return of
\* handleReplicatedEvalResult runs the deferred Unlock(); the call is recorded
\* in aLast when it ends.
SectionDone(cmd, x, next, mu) ==
    LET cmd1 == [cmd EXCEPT !.w = x.w, !.shouldAssert = x.shouldAssert, !.eff = x.eff,
                            !.loc = x.loc]
        to == IF next # "return" THEN next
              ELSE IF cmd.fn = "handleEvalResultRaftMuLocked"
              THEN AfterReplicated(cmd.lResult, x.shouldAssert)
              ELSE "idle"
    IN  /\ InstallReplicaSt(x.st, x.crash)
        /\ IF x.crash # "none"
           THEN /\ apc' = "fatal"
                /\ aCmd' = Some(cmd1)
                /\ aLast' = CallRecord(cmd1, x.crash)
                /\ readOnlyCmdMu' = mu
           ELSE /\ apc' = to
                /\ aCmd' = IF to = "idle" THEN None ELSE Some(cmd1)
                /\ aLast' = IF to = "idle" THEN CallRecord(cmd1, "none") ELSE aLast
                /\ readOnlyCmdMu' = IF next = "return" /\ cmd.rResult.BlockReads
                                    THEN readOnlyCmdMuUnlock(mu) ELSE mu
        /\ UNCHANGED <<applyCount, deltaSum, lpc, lNew, lPermitJump, lVia, lPrev, lPre, lEnv,
                       lEffects>>
        /\ UNCHANGED <<proposalVars, evalVars, sstVars>>

\* The call in progress runs its next section, one of sections.  The section
\* that takes readOnlyCmdMu waits until no reader and no writer holds it.
RunSection(sections) ==
    /\ crashed = "none" /\ aCmd # None /\ apc \in sections
    /\ apc = "lock" => ~readOnlyCmdMu.writer /\ readOnlyCmdMu.readers = 0
    /\ \E x \in {hrerSection(apc, [st |-> ReplicaSt, w |-> aCmd[1].w, crash |-> "none",
                                    shouldAssert |-> aCmd[1].shouldAssert,
                                    eff |-> aCmd[1].eff, loc |-> aCmd[1].loc],
                              aCmd[1].idx, aCmd[1].idx, aCmd[1].env)} :
         SectionDone(aCmd[1], x, hrerNext(apc, x),
                     IF apc = "lock" THEN readOnlyCmdMuLock(readOnlyCmdMu)
                     ELSE readOnlyCmdMu)

\* A section of handleReplicatedEvalResult's own code.
HandleReplicatedStep ==
    RunSection({"lock", "stats", "metrics", "truncState", "truncCache", "truncSideloaded",
                "stateTrivial", "raftLog", "splitMerge", "desc", "gcThreshold",
                "txnSpanGCThreshold", "usingAppliedStateKey", "changeReplicas", "final"})

\* A section of the leasePostApply it calls.
LeasePostApplyStep ==
    RunSection({"leaseRead", "leaseBarriers", "leaseInstall", "leaseAfter"})

\* A section of the computeChecksumPostApply it calls.
ComputeChecksumStep ==
    RunSection({"ccInstall", "ccMismatch", "ccSnapshot", "ccRunTask", "ccNotRun",
                "ccClose"})

\* The results that carry a compute-checksum command and nothing else.
ChecksumRERs == { r \in SingleFieldRERs : r.ComputeChecksum # None }

\* A compute-checksum command is applied.
HandleComputeChecksum == HandleReplicatedOf(ChecksumRERs)

\* The results drawn where the Raft log size is followed: no delta at all, a
\* stats delta only, a log-size delta, and a truncation with or without one.
RaftLogRERs ==
    { ZeroRER, [ZeroRER EXCEPT !.Delta = 1] }
    \cup { [ZeroRER EXCEPT !.RaftLogDelta = d] : d \in {-2, -1, 1} }
    \cup { [ZeroRER EXCEPT !.RaftLogDelta = d,
                           !.State = Some([ZeroReplicaState EXCEPT
                                             !.TruncatedState = Some([Index |-> 1])])] :
             d \in {0, 1} }

\* A command of RaftLogRERs is applied.
HandleRaftLogResult == HandleReplicatedOf(RaftLogRERs)

\* Entries are appended to the Raft log, under raftMu and so between two
\* applies: raftLogSize grows by their size, and raftLogLastCheckSize stays.
RaftLogAppend ==
    /\ crashed = "none" /\ apc = "idle"
    /\ \E size \in {1, 2} :
         /\ rep.raftLogSize + size <= MaxLogSize
         /\ rep' = [rep EXCEPT !.raftLogSize = rep.raftLogSize + size]
    /\ UNCHANGED <<checksums, tasks, chanCount, applyCount, aLast, storeStats, deltaSum,
                   snapshots, doneCount>>
    /\ UNCHANGED leaseVars
    /\ UNCHANGED nonApplyVars

\* Results with a merge trigger and one of the parts handled after it, or all
\* of them.
MergeRERs ==
    LET merge == [ZeroRER EXCEPT !.Merge = Some("merge")]
        lease == CHOOSE l \in ApplyLeases : l.Sequence = 1 /\ l.StoreID = MyStoreID
        change == Some([ChangeType |-> "REMOVE_REPLICA", StoreID |-> MyStoreID])
        cc == Some([ChecksumID |-> 1, Version |-> ReplicaChecksumVersion,
                    Checkpoint |-> FALSE])
    IN  { merge,
          [merge EXCEPT !.ChangeReplicas = change],
          [merge EXCEPT !.ComputeChecksum = cc] }
        \cup { [merge EXCEPT !.State = Some(st)] :
                 st \in { [ZeroReplicaState EXCEPT !.Desc = Some("desc2")],
                          [ZeroReplicaState EXCEPT !.Lease = Some(lease)],
                          [ZeroReplicaState EXCEPT !.GCThreshold = Some(1),
                                                   !.TxnSpanGCThreshold = Some(1)] } }
        \cup { [merge EXCEPT !.State = Some([ZeroReplicaState EXCEPT
                                               !.Desc = Some("desc2"),
                                               !.Lease = Some(lease),
                                               !.GCThreshold = Some(1),
                                               !.TxnSpanGCThreshold = Some(1)]),
                             !.ChangeReplicas = change,
                             !.ComputeChecksum = cc] }

\* A command of MergeRERs is applied.
HandleMergeResult == HandleReplicatedOf(MergeRERs)

\* The replicated results drawn for a whole command: the combined ones, and one
\* of each kind the state assertion is decided on.
RaftApplyRERs ==
    CombinedRERs
    \cup { [ZeroRER EXCEPT !.Delta = 1],
           [ZeroRER EXCEPT !.RaftLogDelta = 1],
           [ZeroRER EXCEPT !.SuggestedCompactions = <<"compaction">>],
           [ZeroRER EXCEPT !.Split = Some("split")],
           [ZeroRER EXCEPT !.Merge = Some("merge")],
           [ZeroRER EXCEPT !.ChangeReplicas =
                               Some([ChangeType |-> "REMOVE_REPLICA", StoreID |-> 1])],
           [ZeroRER EXCEPT !.ComputeChecksum =
                               Some([ChecksumID |-> 1, Version |-> ReplicaChecksumVersion,
                                     Checkpoint |-> FALSE])] }
    \cup { [ZeroRER EXCEPT !.State = Some(st)] :
             st \in { [ZeroReplicaState EXCEPT !.TruncatedState = Some([Index |-> 1])],
                      [ZeroReplicaState EXCEPT !.UsingAppliedStateKey = TRUE],
                      [ZeroReplicaState EXCEPT !.Desc = Some("desc2")],
                      [ZeroReplicaState EXCEPT !.GCThreshold = Some(1)],
                      [ZeroReplicaState EXCEPT !.Lease =
                           Some(CHOOSE l \in ApplyLeases :
                                    l.Sequence = 1 /\ l.StoreID = MyStoreID)] } }

\* The local results drawn for a whole command: none (a follower), or the
\* proposer's with its reply and a gossip flag, or with intents left in.
RaftApplyLocals ==
    { None,
      Some([ZeroLocal EXCEPT !.Reply = Some("br"), !.GossipFirstRange = TRUE]),
      Some([ZeroLocal EXCEPT !.Reply = Some("br"), !.Intents = Some(<<"intent">>)]) }

\* handleEvalResultRaftMuLocked is called with one committed command, which
\* calls handleReplicatedEvalResult first.
HandleEvalResult ==
    CallApplier("handleEvalResultRaftMuLocked", RaftApplyRERs, RaftApplyLocals)

\* The replicated results drawn for a command applied while readers come and
\* go: with and without BlockReads, alone, with a stats delta and with a split.
BlockReadsRERs ==
    { [ZeroRER EXCEPT !.BlockReads = b, !.Delta = d] : b \in BOOLEAN, d \in {0, 1} }
    \cup { [ZeroRER EXCEPT !.BlockReads = b, !.Split = Some("split")] : b \in BOOLEAN }

\* handleEvalResultRaftMuLocked is called with a command of BlockReadsRERs.
ApplyBegin ==
    CallApplier("handleEvalResultRaftMuLocked", BlockReadsRERs, RaftApplyLocals)

\* handleEvalResultRaftMuLocked calls handleLocalEvalResult on the command's
\* local result; a fatal ends the process, else the state assertion follows if
\* it was asked for.
ApplyLocal ==
    /\ crashed = "none" /\ aCmd # None /\ apc = "local"
    /\ LET l == handleLocalEvalResult(aCmd[1].lResult[1])
           cmd1 == [aCmd[1] EXCEPT !.eff = @ \cup l.effects,
                                   !.steps = Append(@, "handleLocalEvalResult")]
           to == IF l.crash # "none" THEN "fatal" ELSE AfterLocal(cmd1)
       IN  /\ crashed' = l.crash
           /\ apc' = to
           /\ aCmd' = IF to = "idle" THEN None ELSE Some(cmd1)
           /\ aLast' = IF to = "assert" THEN aLast ELSE CallRecord(cmd1, l.crash)
    /\ UNCHANGED <<rLease, tsCacheLow, txnWaitQueueEnabled, renewableRegistered,
                   rInstalledBy, lpc, lNew, lPermitJump, lVia, lPrev, lPre, lEnv,
                   lEffects>>
    /\ UNCHANGED <<rep, checksums, tasks, chanCount, applyCount, storeStats, deltaSum,
                   snapshots, doneCount>>
    /\ UNCHANGED <<readOnlyCmdMu, proposalVars, evalVars, sstVars>>

\* The state assertion under r.mu, and the return.
ApplyAssert ==
    /\ crashed = "none" /\ aCmd # None /\ apc = "assert"
    /\ aLast' = CallRecord([aCmd[1] EXCEPT !.eff = @ \cup {"assertStateLocked"},
                                           !.steps = Append(@, "assertStateLocked")],
                           "none")
    /\ apc' = "idle"
    /\ aCmd' = None
    /\ UNCHANGED <<rep, checksums, tasks, chanCount, applyCount, storeStats, deltaSum,
                   snapshots, doneCount>>
    /\ UNCHANGED <<readOnlyCmdMu, leaseVars, proposalVars, evalVars, sstVars>>

\* One command's local result is applied on the proposing replica.
HandleLocal ==
    /\ crashed = "none" /\ apc = "idle" /\ applyCount < MaxApplies
    /\ \E lResult \in LocalInputs :
         LET out == handleLocalEvalResult(lResult)
         IN  /\ crashed' = out.crash
             /\ aLast' = [fn |-> "handleLocalEvalResult", pre |-> Some(ReplicaSt),
                          input |-> Some(lResult), crash |-> out.crash,
                          final |-> Some(out.final), shouldAssert |-> FALSE,
                          eff |-> out.effects]
    /\ applyCount' = applyCount + 1
    /\ UNCHANGED <<rep, checksums, tasks, chanCount, storeStats, deltaSum, snapshots,
                   doneCount>>
    /\ UNCHANGED <<rLease, tsCacheLow, txnWaitQueueEnabled, renewableRegistered,
                   rInstalledBy, lpc, lNew, lPermitJump, lVia, lPrev, lPre, lEnv,
                   lEffects>>
    /\ UNCHANGED nonApplyVars

\* A collector (CollectChecksum) registers its wait for a checksum ID.
RegisterCollector ==
    /\ crashed = "none" /\ chanCount < MaxChans
    /\ \E id \in ChecksumIDs, now \in {1}, deadline \in {0, 2} :
         LET st == getChecksumRegister(ReplicaSt, id, now, deadline)
         IN  /\ checksums' = st.checksums
             /\ chanCount' = st.chanCount
    /\ UNCHANGED <<rep, tasks, applyCount, aLast, storeStats, deltaSum, snapshots,
                   doneCount>>
    /\ UNCHANGED leaseVars
    /\ UNCHANGED nonApplyVars

\* The asynchronous task launched by computeChecksumPostApply for id has run
\* sha512, which gave a digest or failed, and calls computeChecksumDone.
ChecksumTaskDoneOf(id) ==
    /\ crashed = "none"
    /\ \E t \in tasks, result \in {"sha", "nil"}, now \in {1, 3} :
         /\ t.id = id /\ ~t.done
         /\ LET st == markDone(ReplicaSt, id, result, now)
            IN  /\ checksums' = st.checksums
                /\ doneCount' = st.doneCount
         /\ tasks' = (tasks \ {t}) \cup {[t EXCEPT !.done = TRUE]}
    /\ UNCHANGED <<rep, chanCount, applyCount, aLast, storeStats, deltaSum, snapshots>>
    /\ UNCHANGED leaseVars
    /\ UNCHANGED nonApplyVars

\* One of the tasks launched records its outcome.
ChecksumTaskDone == \E id \in ChecksumIDs : ChecksumTaskDoneOf(id)

\* The task for id returns: the deferred snap.Close() runs and the task ends.
ChecksumTaskReturnOf(id) ==
    /\ crashed = "none"
    /\ \E t \in tasks :
         /\ t.id = id /\ t.done
         /\ snapshots' = snapshots \ {t.snap}
         /\ tasks' = tasks \ {t}
    /\ UNCHANGED <<rep, checksums, chanCount, applyCount, aLast, storeStats, deltaSum,
                   doneCount>>
    /\ UNCHANGED leaseVars
    /\ UNCHANGED nonApplyVars

\* One of the tasks that have recorded their outcome returns.
ChecksumTaskReturn == \E id \in ChecksumIDs : ChecksumTaskReturnOf(id)

\* A batch is evaluated and made into a proposal: requestToProposal as a
\* function of the call.
EvaluateBatch ==
    /\ evIn = None
    /\ \E in \in EvalCalls, endCmds \in BOOLEAN :
         LET ev == evaluateProposal(in)
         IN  /\ evIn' = Some(in)
             /\ evOut' = Some([ev |-> ev, rtp |-> newProposalData(ev, endCmds),
                               endCmds |-> endCmds])
    /\ UNCHANGED <<proposalVars, leaseVars, applyVars, sstVars, cmdVars>>

\* A read-only command takes readOnlyCmdMu shared: RLock() returns while no
\* writer holds it.
ReadOnlyBegin ==
    /\ crashed = "none"
    /\ ~readOnlyCmdMu.writer
    /\ readOnlyCmdMu.readers < MaxReaders
    /\ readOnlyCmdMu' = [readOnlyCmdMu EXCEPT !.readers = @ + 1]
    /\ UNCHANGED <<apc, aCmd, applyVars, leaseVars, proposalVars, evalVars, sstVars>>

\* The read-only command ends: RUnlock().
ReadOnlyEnd ==
    /\ crashed = "none"
    /\ readOnlyCmdMu.readers > 0
    /\ readOnlyCmdMu' = [readOnlyCmdMu EXCEPT !.readers = @ - 1]
    /\ UNCHANGED <<apc, aCmd, applyVars, leaseVars, proposalVars, evalVars, sstVars>>

\* ------------------------------------------------------- addSSTablePreApply

\* A uint32 as its 32 bits, lowest first; Word reads it from 8 hex digits,
\* highest first.
Word(h) == [i \in 1 .. 32 |-> (h[8 - ((i - 1) \div 4)] \div (2 ^ ((i - 1) % 4))) % 2 = 1]

\* The Castagnoli polynomial, reversed: 0x82f63b78.
Castagnoli == Word(<<8, 2, 15, 6, 3, 11, 7, 8>>)

AllOnes == [i \in 1 .. 32 |-> TRUE]

Xor(a, b) == [i \in 1 .. 32 |-> a[i] # b[i]]

ByteWord(b) == [i \in 1 .. 32 |-> i <= 8 /\ (b \div (2 ^ (i - 1))) % 2 = 1]

ShiftRight(c) == [i \in 1 .. 32 |-> IF i < 32 THEN c[i + 1] ELSE FALSE]

\* n rounds of the bitwise CRC: shift right, and xor the polynomial in when
\* the bit shifted out was set.
RECURSIVE crcBits(_, _)
crcBits(c, n) ==
    IF n = 0 THEN c
    ELSE crcBits(IF c[1] THEN Xor(ShiftRight(c), Castagnoli) ELSE ShiftRight(c), n - 1)

RECURSIVE crcUpdate(_, _)
crcUpdate(c, data) ==
    IF data = <<>> THEN c
    ELSE crcUpdate(crcBits(Xor(c, ByteWord(Head(data))), 8), Tail(data))

\* util.CRC32: the Castagnoli CRC-32 of the data.
CRC32(data) == Xor(crcUpdate(AllOnes, data), AllOnes)

\* The bytes payloads are made of, and the payloads.
SSTBytes == {0, 255}

RECURSIVE PayloadsOfLen(_)
PayloadsOfLen(n) ==
    IF n = 0 THEN {<<>>}
    ELSE { Append(d, b) : d \in PayloadsOfLen(n - 1), b \in SSTBytes }

Payloads == UNION { PayloadsOfLen(n) : n \in 0 .. MaxPayload }

\* The ReplicatedEvalResult_AddSSTable values drawn: a payload, and the CRC
\* stored at proposal time, of this payload or of another.
SSTs == [Data : Payloads, CRC32 : { CRC32(d) : d \in Payloads }]

\* The two messages of the engine the fallback is made for.
seqNoMsg == "Global seqno is required, but disabled"
seqNoOnReIngest == "external file have non zero sequence number"

\* strings.Contains, on a message given as its parts.
Contains(msg, sub) == \E i \in 1 .. Len(msg) : msg[i] = sub

\* The errors drawn for the ingest of the hardlink: of the engine's native
\* type (*engine.RocksDBError) or not, with a message in parts.
IngestErrs ==
    [native : BOOLEAN,
     msg : {<<"while ingesting: ", seqNoMsg>>, <<seqNoOnReIngest>>, <<"IO error">>}]

\* What the collaborators of one call answer: sideloaded.Filename fails; the
\* engine is engine.InMem and its WriteFile fails; the cluster version is
\* active; sysutil.StatAndLinkCount fails or gives a link count; eng.LinkFile
\* fails; the ingest of the hardlink fails with an error; eng.DeleteFile,
\* os.MkdirAll, os.Remove, writeFileSyncing and the last ingest fail; os.Stat
\* finds a file at the ingest path.
SSTEnvAll ==
    [filenameErr : BOOLEAN, inmem : BOOLEAN, writeFileErr : BOOLEAN,
     versionActive : BOOLEAN, statErr : BOOLEAN, links : {1, 2}, linkErr : BOOLEAN,
     ingestErr : {None} \cup { Some(e) : e \in IngestErrs }, rmErr : BOOLEAN,
     mkdirErr : BOOLEAN, exists : BOOLEAN, removeErr : BOOLEAN, writeErr : BOOLEAN,
     finalIngestErr : BOOLEAN]

\* One call on a collaborator; the ingest calls carry their two flags.
SSTCall(op, path) == [op |-> op, path |-> path, canSkipSeqNo |-> FALSE, modify |-> FALSE]
SSTIngest(path, canSkipSeqNo, modify) ==
    [op |-> "IngestExternalFiles", path |-> path, canSkipSeqNo |-> canSkipSeqNo,
     modify |-> modify]

SSTDone(crash, copied, eff) == [crash |-> crash, copied |-> copied, eff |-> eff]

\* Mutant of sstIngestErrFallsBack: any error of the engine's native type.
sstIngestErrFallsBackAnyNative(e) == e.native

\* The ingest error is one to fall back to the copy on: of the native type, and
\* with one of the two messages.
sstIngestErrFallsBack(e) ==
    e.native /\ (Contains(e.msg, seqNoMsg) \/ Contains(e.msg, seqNoOnReIngest))

\* Mutant of sstFinalIngest: a copy is reported whichever way the file came to
\* be.
sstFinalIngestReportsCopy(eff, path, copied, env) ==
    LET eff1 == Append(eff, SSTIngest(path, env.versionActive, TRUE))
    IN  IF env.finalIngestErr THEN SSTDone("fatal: while ingesting", TRUE, eff1)
        ELSE SSTDone("none", TRUE, eff1)

\* The ingest that ends the call, modification allowed.
sstFinalIngest(eff, path, copied, env) ==
    LET eff1 == Append(eff, SSTIngest(path, env.versionActive, TRUE))
    IN  IF env.finalIngestErr THEN SSTDone("fatal: while ingesting", copied, eff1)
        ELSE SSTDone("none", copied, eff1)

\* The copy: the directory is made, a file found at the ingest path is
\* removed, the payload is written.
sstCopy(eff, env) ==
    LET path == "sideloaded.ingested"
        eff1 == Append(eff, SSTCall("os.MkdirAll", path))
        eff2 == Append(eff1, SSTCall("os.Stat", path))
        eff3 == IF env.exists THEN Append(eff2, SSTCall("os.Remove", path)) ELSE eff2
        eff4 == Append(eff3, SSTCall("writeFileSyncing", path))
    IN  IF env.mkdirErr THEN SSTDone("panic: MkdirAll", FALSE, eff1)
        ELSE IF env.exists /\ env.removeErr
        THEN SSTDone("fatal: while removing existing file", FALSE, eff3)
        ELSE IF env.writeErr THEN SSTDone("fatal: while ingesting (write)", FALSE, eff4)
        ELSE sstFinalIngest(eff4, path, TRUE, env)

\* Mutant of sstCanLinkToRaftFile: the link count is not looked at.
sstCanLinkWhateverLinks(statErr, links) == ~statErr

\* canLinkToRaftFile: the file could be examined and has exactly one link.
sstCanLinkToRaftFile(statErr, links) == ~statErr /\ links = 1

\* Mutant of sstOnDisk: the payload is always copied.
sstOnDiskAlwaysCopies(eff, env) ==
    sstCopy(Append(eff, SSTCall("sysutil.StatAndLinkCount", "sideloaded")), env)

\* The on-disk engine: the hardlink and its ingest without modification when
\* the sideloaded file has one link, and the copy otherwise or on a
\* sequence-number error.
sstOnDisk(eff, env) ==
    LET eff1 == Append(eff, SSTCall("sysutil.StatAndLinkCount", "sideloaded"))
        eff2 == Append(eff1, SSTCall("LinkFile", "sideloaded.ingested"))
        eff3 == Append(eff2, SSTIngest("sideloaded.ingested", env.versionActive, FALSE))
        eff4 == Append(eff3, SSTCall("DeleteFile", "sideloaded.ingested"))
    IN  IF ~sstCanLinkToRaftFile(env.statErr, env.links) THEN sstCopy(eff1, env)
        ELSE IF env.linkErr THEN sstCopy(eff2, env)
        ELSE IF env.ingestErr = None THEN SSTDone("none", FALSE, eff3)
        ELSE IF env.rmErr THEN SSTDone("fatal: failed to move ingest sst", FALSE, eff4)
        ELSE IF ~sstIngestErrFallsBack(env.ingestErr[1])
        THEN SSTDone("fatal: while ingesting (link)", FALSE, eff4)
        ELSE sstCopy(eff4, env)

\* Mutant of sstChecksumMismatch: never a mismatch.
sstChecksumMismatchNever(sst) == FALSE

\* checksum != sst.CRC32
sstChecksumMismatch(sst) == CRC32(sst.Data) # sst.CRC32

\* addSSTablePreApply: the crash it ends in if any, the value returned, and the
\* calls made on the sideloaded storage, the engine and the file system, in
\* order.
addSSTablePreApply(sst, env) ==
    LET eff1 == <<SSTCall("sideloaded.Filename", "sideloaded")>>
        eff2 == Append(eff1, SSTCall("PreIngestDelay", ""))
        eff3 == Append(eff2, SSTCall("inmem.WriteFile", "checksum"))
    IN  IF sstChecksumMismatch(sst) THEN SSTDone("fatal: checksum does not match", FALSE, <<>>)
        ELSE IF env.filenameErr THEN SSTDone("fatal: sideloaded SSTable is missing", FALSE, eff1)
        ELSE IF env.inmem
        THEN IF env.writeFileErr THEN SSTDone("panic: WriteFile", FALSE, eff3)
             ELSE sstFinalIngest(eff3, "checksum", FALSE, env)
        ELSE sstOnDisk(eff2, env)

\* The answer the call asked for by each call it made.
SSTAnswerOf(op) ==
    CASE op = "sideloaded.Filename" -> {"filenameErr"}
      [] op = "PreIngestDelay" -> {"inmem", "versionActive"}
      [] op = "inmem.WriteFile" -> {"writeFileErr"}
      [] op = "sysutil.StatAndLinkCount" -> {"statErr", "links"}
      [] op = "LinkFile" -> {"linkErr"}
      [] op = "DeleteFile" -> {"rmErr"}
      [] op = "os.MkdirAll" -> {"mkdirErr"}
      [] op = "os.Stat" -> {"exists"}
      [] op = "os.Remove" -> {"removeErr"}
      [] op = "writeFileSyncing" -> {"writeErr"}
      [] OTHER -> {}

\* The collaborators when nothing fails: an on-disk engine, one link.
SSTEnvQuiet ==
    [filenameErr |-> FALSE, inmem |-> FALSE, writeFileErr |-> FALSE,
     versionActive |-> FALSE, statErr |-> FALSE, links |-> 1, linkErr |-> FALSE,
     ingestErr |-> None, rmErr |-> FALSE, mkdirErr |-> FALSE, exists |-> FALSE,
     removeErr |-> FALSE, writeErr |-> FALSE, finalIngestErr |-> FALSE]

\* The answers drawn: those that differ from the quiet ones only where a call
\* with a matching checksum asks.
SSTEnvs ==
    { env \in SSTEnvAll :
        LET out == addSSTablePreApply([Data |-> <<>>, CRC32 |-> CRC32(<<>>)], env)
            asked == UNION { SSTAnswerOf(out.eff[i].op) : i \in 1 .. Len(out.eff) }
                     \cup { f \in {"ingestErr", "finalIngestErr"} :
                              \E i \in 1 .. Len(out.eff) :
                                  /\ out.eff[i].op = "IngestExternalFiles"
                                  /\ out.eff[i].modify = (f = "finalIngestErr") }
        IN  \A f \in DOMAIN env : f \notin asked => env[f] = SSTEnvQuiet[f] }

\* The calls drawn.
SSTCalls == [sst : SSTs, env : SSTEnvs]

\* An SSTable is ingested ahead of the command's application.
AddSSTablePreApply ==
    /\ sstIn = None
    /\ \E c \in SSTCalls :
         /\ sstIn' = Some(c)
         /\ sstOut' = Some(addSSTablePreApply(c.sst, c.env))
    /\ UNCHANGED <<proposalVars, leaseVars, applyVars, evalVars, cmdVars>>

\* --------------------------------------------------------------- initial state


InitProposal ==
    /\ pState = "none"
    /\ pEndCmds = FALSE
    /\ pHadEndCmds = FALSE
    /\ pSp = FALSE
    /\ pDoneCh = "nil"
    /\ pCommand = FALSE
    /\ pErr = "nil"
    /\ chCap = 0
    /\ chBuf = <<>>
    /\ endCmdsLog = <<>>
    /\ spanFinishes = 0
    /\ sentLog = <<>>
    /\ client = "waiting"
    /\ clientGot = NilResult
    /\ pc = "idle"
    /\ curPr = NilResult
    /\ calls = 0
    /\ callLog = <<>>

InitLease ==
    /\ rLease = ZeroLease
    /\ tsCacheLow = 0
    /\ txnWaitQueueEnabled = FALSE
    /\ renewableRegistered = FALSE
    /\ crashed = "none"
    /\ rInstalledBy = [changingToMe |-> FALSE, barriers |-> FALSE]
    /\ lpc = "idle"
    /\ lNew = ZeroLease
    /\ lPermitJump = FALSE
    /\ lVia = "other"
    /\ lPrev = ZeroLease
    /\ lEnv = NoLeaseEnv
    /\ lPre = [lease |-> ZeroLease, tsCacheLow |-> 0, txnq |-> FALSE, renewable |-> FALSE]
    /\ lEffects = {}

\* A replica that has applied nothing: no checksum entries, no async tasks.
InitRep ==
    [Stats |-> 0, RaftAppliedIndex |-> 0, LeaseAppliedIndex |-> 0,
     TruncatedState |-> None, raftLogSize |-> 0, raftLogLastCheckSize |-> 0,
     raftEntryCacheClearedBelow |-> 0, sideloadedTruncatedBelow |-> 0,
     UsingAppliedStateKey |-> FALSE, Desc |-> "desc1", GCThreshold |-> 0,
     TxnSpanGCThreshold |-> 0]

InitApply ==
    /\ rep = InitRep
    /\ checksums = [id \in ChecksumIDs |-> None]
    /\ tasks = {}
    /\ chanCount = 0
    /\ applyCount = 0
    /\ aLast = NoCall
    /\ storeStats = 0
    /\ deltaSum = 0
    /\ snapshots = {}
    /\ doneCount = [id \in ChecksumIDs |-> 0]

\* The state after construction: no proposal built, no lease applied, no
\* command applied.
Init ==
    /\ InitProposal /\ InitLease /\ InitApply
    /\ evIn = None /\ evOut = None
    /\ sstIn = None /\ sstOut = None
    /\ readOnlyCmdMu = [writer |-> FALSE, readers |-> 0]
    /\ apc = "idle" /\ aCmd = None

NextProposal ==
    \/ requestToProposal
    \/ AttachSpan
    \/ CallFinishApplication
    \/ CallSignalProposalResult
    \/ FinishEndCmds
    \/ FinishSpan
    \/ SignalSend
    \/ ClientReceive
    \/ ClientCancel

SpecProposal == Init /\ [][NextProposal]_vars

\* The goroutine inside finishApplication / signalProposalResult is scheduled
\* until it returns or blocks.
SpecProposalFair ==
    /\ SpecProposal
    /\ WF_vars(FinishEndCmds) /\ WF_vars(FinishSpan) /\ WF_vars(SignalSend)

NextLease ==
    \/ CallLeasePostApplyFromRaft
    \/ CallLeasePostApplyOther
    \/ LeaseReadPrev
    \/ LeaseBarriers
    \/ LeaseSeqCheck
    \/ LeaseInstall
    \/ LeaseAfterInstall
    \/ LeaseReturn

SpecLease == Init /\ [][NextLease]_vars

NextApply ==
    \/ HandleReplicated
    \/ HandleReplicatedStep
    \/ LeasePostApplyStep
    \/ ComputeChecksumStep
    \/ HandleLocal

SpecApply == Init /\ [][NextApply]_vars

\* Whole commands applied one after the other under raftMu.
NextRaftApply ==
    \/ HandleEvalResult
    \/ HandleReplicatedStep
    \/ LeasePostApplyStep
    \/ ComputeChecksumStep
    \/ ApplyLocal
    \/ ApplyAssert

SpecRaftApply == Init /\ [][NextRaftApply]_vars

\* One ingestion, over all the calls drawn.
NextSSTable == AddSSTablePreApply

SpecSSTable == Init /\ [][NextSSTable]_vars

\* One evaluation, over all the calls drawn.
NextEvaluate == EvaluateBatch

SpecEvaluate == Init /\ [][NextEvaluate]_vars

\* Compute-checksum commands applied while collectors register their waits.
NextChecksum ==
    \/ HandleComputeChecksum
    \/ HandleReplicatedStep
    \/ ComputeChecksumStep
    \/ RegisterCollector
    \/ ChecksumTaskDone
    \/ ChecksumTaskReturn

SpecChecksum == Init /\ [][NextChecksum]_vars

\* A task the stopper has accepted runs in its own goroutine and is scheduled
\* until it ends.
SpecChecksumFair ==
    /\ SpecChecksum
    /\ WF_vars(HandleReplicatedStep) /\ WF_vars(ComputeChecksumStep)
    /\ \A id \in ChecksumIDs : WF_vars(ChecksumTaskDoneOf(id))
    /\ \A id \in ChecksumIDs : WF_vars(ChecksumTaskReturnOf(id))

\* Commands applied while the Raft log grows in between.
NextRaftLog ==
    \/ HandleRaftLogResult
    \/ HandleReplicatedStep
    \/ RaftLogAppend

SpecRaftLog == Init /\ [][NextRaftLog]_vars

\* Commands with a merge trigger applied one after the other.
NextMerge ==
    \/ HandleMergeResult
    \/ HandleReplicatedStep
    \/ LeasePostApplyStep
    \/ ComputeChecksumStep

SpecMerge == Init /\ [][NextMerge]_vars

\* One command after the other applied step by step, with read-only commands
\* running beside them.
NextBlockReads ==
    \/ ApplyBegin
    \/ HandleReplicatedStep
    \/ ApplyLocal
    \/ ApplyAssert
    \/ ReadOnlyBegin
    \/ ReadOnlyEnd

SpecBlockReads == Init /\ [][NextBlockReads]_vars

\* ------------------------------------------------------------------ claims

\* Some call so far was finishApplication.
FinishCalled == \E i \in 1..Len(callLog) : callLog[i].op = "finish"

\* Number of finishApplication calls so far.
RECURSIVE CountFinish(_)
CountFinish(log) ==
    IF log = <<>> THEN 0
    ELSE (IF Head(log).op = "finish" THEN 1 ELSE 0) + CountFinish(Tail(log))

\* C1: over any sequence of finishApplication and signalProposalResult calls on
\* one proposal, endCmds is invoked at most once, at most one result is ever
\* sent on the completion channel, and once a result has been sent the channel
\* reference is nil (so every later signal does nothing).
C1_AtMostOnceCompletion ==
    /\ Len(endCmdsLog) <= 1
    /\ Len(sentLog) <= 1
    /\ (Len(sentLog) = 1 => pDoneCh = "nil")

\* C1 witness: two calls have completed, both the hook and the send happened
\* once, and the handler already took the first result out of the channel.
C1_Witness ==
    /\ calls >= 2 /\ pc = "idle"
    /\ Len(endCmdsLog) = 1 /\ Len(sentLog) = 1
    /\ client = "got" /\ chBuf = <<>>

\* C2: the tracing span of a proposal is finished at most once, however often
\* finishApplication is called.
C2_SpanFinishedOnce == spanFinishes <= 1

\* C3: with the capacity-1 channel of requestToProposal, the send inside
\* finishApplication never has to wait for a receiver, a completed
\* finishApplication has invoked the latch-release hook it was given, also when
\* the handler was cancelled, and every call that started returns.
C3_FinishNeverBlocks ==
    /\ [](pc \in {"signal", "fa_signal"} /\ pDoneCh # "nil" => Len(chBuf) < chCap)
    /\ [](pc = "idle" /\ FinishCalled /\ pHadEndCmds =>
             Len(endCmdsLog) = 1 /\ ~pEndCmds)
    /\ ((pc # "idle") ~> (pc = "idle"))

\* C3 witness: the handler was cancelled and never received, finishApplication
\* completed, the result sits in the channel buffer and the hook ran.
C3_Witness ==
    /\ client = "cancelled" /\ pc = "idle" /\ FinishCalled
    /\ pHadEndCmds /\ Len(endCmdsLog) = 1
    /\ Len(chBuf) = 1 /\ clientGot = NilResult

\* C4: when the first call on a proposal is signalProposalResult(pr1), that call
\* sends pr1 and leaves the latch hook and the span alone; finishApplication
\* calls after it release the latches exactly once, send nothing more, and the
\* handler can only ever receive pr1.
C4_SignalThenFinish ==
    (callLog # <<>> /\ callLog[1].op = "signal") =>
        /\ (Len(callLog) = 1 /\ pc = "idle" =>
               /\ sentLog = <<callLog[1].pr>>
               /\ endCmdsLog = <<>> /\ pEndCmds = pHadEndCmds
               /\ spanFinishes = 0)
        /\ (sentLog # <<>> => sentLog = <<callLog[1].pr>>)
        /\ (client = "got" => clientGot = callLog[1].pr)
        /\ Len(endCmdsLog) <= 1
        /\ (pc = "idle" /\ FinishCalled /\ pHadEndCmds =>
               Len(endCmdsLog) = 1 /\ ~pEndCmds)

\* C4 witness: signalProposalResult(pr1) then finishApplication(pr2) with a
\* different result; the latches were released once, with pr2, and the handler
\* holds pr1.
C4_Witness ==
    /\ Len(callLog) = 2 /\ pc = "idle"
    /\ callLog[1].op = "signal" /\ callLog[2].op = "finish"
    /\ callLog[1].pr # callLog[2].pr
    /\ endCmdsLog = <<callLog[2].pr>>
    /\ sentLog = <<callLog[1].pr>>
    /\ client = "got" /\ clientGot = callLog[1].pr

\* The call in progress is past the sequence check: it passed it or died in it.
PastSeqCheck ==
    \/ (crashed = "none" /\ lpc \in {"install", "after", "done"})
    \/ crashed \in {"inversion", "identical", "jump"}

\* C7: lease sequence discipline.  With a non-zero previous sequence,
\* leasePostApply dies on a lower new sequence, dies on an equal sequence when
\* the leases are not Equivalent, and passes the check (and then installs the
\* lease) when the new sequence is old+1; with a zero previous sequence the
\* check never fires.
C7_SequenceDiscipline ==
    PastSeqCheck =>
        LET s1 == lPrev.Sequence
            s2 == lNew.Sequence
        IN  /\ (s1 # 0 /\ s2 < s1 => crashed = "inversion")
            /\ (s1 # 0 /\ s2 = s1 /\ ~Equivalent(lPrev, lNew) => crashed = "identical")
            /\ (s1 # 0 /\ s2 = s1 + 1 =>
                   crashed = "none" /\ (lpc \in {"after", "done"} => rLease = lNew))
            /\ (s1 = 0 =>
                   crashed = "none" /\ (lpc \in {"after", "done"} => rLease = lNew))

\* C7 witness: a lease with the installed (non-zero) sequence but another
\* holder or start was applied and the process died on it.
C7_Witness ==
    /\ crashed = "identical"
    /\ lPrev.Sequence # 0 /\ lNew.Sequence = lPrev.Sequence
    /\ ~Equivalent(lPrev, lNew)
    /\ rLease = lPrev

\* C8: with a non-zero previous sequence and a new sequence above old+1,
\* leasePostApply dies exactly when permitJump is false and installs the lease
\* when it is true; handleReplicatedEvalResult always passes false, so such a
\* lease committed through Raft always kills the replica.
C8_JumpNeedsPermit ==
    /\ (lpc # "idle" /\ lVia = "raft" => ~lPermitJump)
    /\ (PastSeqCheck /\ lPrev.Sequence # 0 /\ lNew.Sequence > lPrev.Sequence + 1 =>
           /\ (~lPermitJump => crashed = "jump" /\ rLease = lPrev)
           /\ (lPermitJump =>
                  crashed = "none" /\ (lpc \in {"after", "done"} => rLease = lNew))
           /\ (lVia = "raft" => crashed = "jump"))

\* C8 witness: a lease two sequence numbers ahead arrived through Raft and the
\* process died with the old lease still installed.
C8_Witness ==
    /\ crashed = "jump" /\ lVia = "raft"
    /\ lPrev.Sequence # 0 /\ lNew.Sequence > lPrev.Sequence + 1
    /\ rLease = lPrev

\* The side effects of a lease changing hands.
ChangingHandsEffects ==
    {"maybeWatchForMerge", "setTimestampCacheLowWaterMark", "renewableLeases.Store",
     "renewableLeasesSignal sent", "renewableLeasesSignal dropped", "gossipFirstRange",
     "leaseAddEvent", "leaseRemoveEvent", "txnWaitQueue.Clear"}

\* C9: applying the lease that is already installed does not crash, performs
\* none of the side effects of a change of hands, and leaves the lease, the
\* timestamp cache, the txn-wait queue and the renewable-leases registry as
\* they were when the call began.
C9_IdempotentLeaseApply ==
    (lpc # "idle" /\ lPrev = lNew) =>
        /\ crashed = "none"
        /\ lEffects \cap ChangingHandsEffects = {}
        /\ ReplicaView = lPre

\* C9 witness: this replica holds a lease with a non-zero sequence and the same
\* lease was applied again, to the end.
C9_Witness ==
    /\ lpc = "done" /\ lPrev = lNew /\ rLease = lNew
    /\ lNew.Sequence # 0 /\ iAmTheLeaseHolder(lNew)
    /\ "txnWaitQueue.Enable" \in lEffects

\* C10: a lease installed by a change of hands to this replica is visible in the
\* replica state only after the merge watch succeeded and the timestamp-cache
\* low-water mark reached its start: in every state a reader can see, the
\* low-water mark is at or above the start of such a lease.
C10_LeaseVisibleAfterBarriers ==
    rInstalledBy.changingToMe =>
        /\ rInstalledBy.barriers
        /\ tsCacheLow >= rLease.Start

\* C10 witness: the lease just became visible, the call is not finished, and the
\* low-water mark was raised by this call to the start of the new lease.
C10_Witness ==
    /\ lpc = "after" /\ rInstalledBy.changingToMe /\ rLease = lNew
    /\ lPre.tsCacheLow < lNew.Start /\ tsCacheLow = lNew.Start

\* The last apply was handleReplicatedEvalResult on a result with one field set.
AppliedSingleFieldRER ==
    /\ aLast.fn = "handleReplicatedEvalResult"
    /\ aLast.input[1] \in SingleFieldRERs

\* The set field is one handleReplicatedEvalResult has no step for: the
\* deprecated delta, the SSTable, or within State the applied indices and a
\* non-zero Stats.
UnhandledFieldSet(rResult) ==
    \/ rResult.DeprecatedDelta # None
    \/ rResult.AddSSTable # None
    \/ /\ rResult.State # None
       /\ \/ rResult.State[1].RaftAppliedIndex # 0
          \/ rResult.State[1].LeaseAppliedIndex # 0
          \/ rResult.State[1].Stats # None /\ rResult.State[1].Stats[1] # 0

\* The fatals of the step that handles the set field.
OwnStepFatals(rResult) ==
    (IF rResult.Merge # None THEN {"failed to update store after merging range"} ELSE {})
    \cup (IF rResult.State # None /\ rResult.State[1].Lease # None
          THEN {"maybeWatchForMerge", "inversion", "identical", "jump"} ELSE {})
    \cup (IF rResult.ComputeChecksum # None THEN {"duplicated checksum ID"} ELSE {})

\* C5 as stated: every ReplicatedEvalResult with exactly one field set is
\* processed by one handleReplicatedEvalResult call without a crash and the
\* working copy ends equal to the zero value.
C5_AnySingleFieldExhausted ==
    AppliedSingleFieldRER =>
        /\ aLast.crash = "none"
        /\ aLast.final[1] = ZeroRER

\* C5 amended: a result whose one set field is handled by the applier ends at
\* the zero value without a crash, unless the step handling that field is
\* fatal (merge failure; lease sequence violation or failed merge watch;
\* duplicate checksum ID), and then nothing else is fatal; a result whose one
\* set field the applier has no step for (DeprecatedDelta, AddSSTable,
\* State.RaftAppliedIndex, State.LeaseAppliedIndex, a non-zero State.Stats)
\* crashes with "unhandled field in ReplicatedEvalResult".
C5_HandledSingleFieldExhausted ==
    AppliedSingleFieldRER =>
        IF UnhandledFieldSet(aLast.input[1])
        THEN /\ aLast.crash = "unhandled field in ReplicatedEvalResult"
             /\ aLast.final[1] # ZeroRER
        ELSE /\ aLast.crash \in {"none"} \cup OwnStepFatals(aLast.input[1])
             /\ aLast.crash = "none" => aLast.final[1] = ZeroRER

\* A result carrying only a zero-valued State.Stats was applied and exhausted,
\* after an earlier apply that installed a lease.
C5_Witness ==
    /\ AppliedSingleFieldRER
    /\ aLast.input[1].State # None
    /\ aLast.input[1].State[1].Stats = Some(0)
    /\ aLast.crash = "none"
    /\ aLast.final[1] = ZeroRER
    /\ rLease # ZeroLease

\* C6 as stated: every LocalResult with a single field set, its intent and
\* ended-transaction lists detached, is processed by handleLocalEvalResult
\* without a crash and ends equal to the zero value, for an updated-transactions
\* list of every length including the empty list.
C6_LocalSingleFieldExhausted ==
    ( /\ aLast.fn = "handleLocalEvalResult"
      /\ aLast.input[1].Intents = None
      /\ aLast.input[1].EndTxns = None )
    => /\ aLast.crash = "none"
       /\ aLast.final[1] = ZeroLocal

\* C11: when leasePostApply returns, a lease that changed hands away from this
\* replica has cleared and disabled the transaction-wait queue, a lease held by
\* this replica has enabled it, and no call does both.
C11_TxnWaitQueueFollowsLease ==
    lpc = "done" =>
        /\ (leaseChangingHands(lPrev, lNew) /\ ~iAmTheLeaseHolder(lNew))
              => ("txnWaitQueue.Clear" \in lEffects /\ ~txnWaitQueueEnabled)
        /\ iAmTheLeaseHolder(lNew)
              => ("txnWaitQueue.Enable" \in lEffects /\ txnWaitQueueEnabled)
        /\ ~({"txnWaitQueue.Clear", "txnWaitQueue.Enable"} \subseteq lEffects)

\* This replica held the lease with the queue enabled and has just applied a
\* lease that hands it to the other store.
C11_Witness ==
    /\ lpc = "done"
    /\ lPre.txnq
    /\ iAmTheLeaseHolder(lPrev)
    /\ leaseChangingHands(lPrev, lNew)
    /\ ~iAmTheLeaseHolder(lNew)
    /\ ~txnWaitQueueEnabled

\* The code's condition for the renewable-leases step of the call that has just
\* returned, without the validity of the lease.
BecameExpirationHolder ==
    /\ leaseChangingHands(lPrev, lNew)
    /\ iAmTheLeaseHolder(lNew)
    /\ lEnv.expirationBasedLease

\* The renewer was signalled without blocking: sent if it was receiving,
\* dropped otherwise.
SignalledNonBlocking ==
    /\ "renewableLeasesSignal blocked" \notin lEffects
    /\ IF lEnv.renewerIdle
       THEN "renewableLeasesSignal sent" \in lEffects
            /\ "renewableLeasesSignal dropped" \notin lEffects
       ELSE "renewableLeasesSignal dropped" \in lEffects
            /\ "renewableLeasesSignal sent" \notin lEffects

\* C12 as stated: whenever this replica becomes the new holder of an
\* expiration-based lease, the range is registered in the renewable-leases map
\* and the renewer is signalled without blocking.
C12_ExpirationHolderRegistered ==
    (lpc = "done" /\ BecameExpirationHolder) =>
        /\ "renewableLeases.Store" \in lEffects
        /\ renewableRegistered
        /\ SignalledNonBlocking

\* C12 amended: whenever this replica becomes the new holder of an
\* expiration-based lease that is valid at the current time, the range is
\* registered in the renewable-leases map and the renewer is signalled with a
\* non-blocking send (sent if the renewer is receiving, dropped otherwise); when
\* the lease is not valid, or any other condition fails, nothing is registered
\* and no signal is attempted.
C12_ValidExpirationHolderRegistered ==
    lpc = "done" =>
        IF BecameExpirationHolder /\ lEnv.validAtRenew
        THEN /\ "renewableLeases.Store" \in lEffects
             /\ renewableRegistered
             /\ SignalledNonBlocking
        ELSE /\ "renewableLeases.Store" \notin lEffects
             /\ renewableRegistered = lPre.renewable
             /\ lEffects \cap {"renewableLeasesSignal sent", "renewableLeasesSignal dropped",
                               "renewableLeasesSignal blocked"} = {}

\* This replica took over a valid expiration-based lease while the renewer was
\* busy: the range is registered and the signal was dropped.
C12_Witness ==
    /\ lpc = "done"
    /\ BecameExpirationHolder /\ lEnv.validAtRenew /\ ~lEnv.renewerIdle
    /\ renewableRegistered /\ ~lPre.renewable
    /\ "renewableLeasesSignal dropped" \in lEffects

\* The step runs section p of the applier call in progress, to the next section
\* or to its fatal.
RanSection(p) == apc = p /\ (apc' # p \/ crashed' # "none")

\* The step ends an applier call, at its return or at its fatal.
CallEnds == aLast = NoCall /\ aLast' # NoCall

\* The checksum ID of the compute-checksum command being applied.
CallChecksumID == aCmd[1].w.ComputeChecksum[1].ChecksumID

\* The step is the first critical section of computeChecksumPostApply: the
\* duplicate check, the collection of old entries, the install.
ChecksumInstallStep == RanSection("ccInstall")

\* The checksum ID of the last compute-checksum command applied.
LastChecksumID == aLast.input[1].ComputeChecksum[1].ChecksumID

\* The last apply was of a compute-checksum command.
AppliedChecksum ==
    /\ aLast.fn = "handleReplicatedEvalResult"
    /\ aLast.input[1].ComputeChecksum # None

\* C13: when computeChecksumPostApply takes r.mu while the map holds an entry
\* for the command's ID that a collector registered and that is not started,
\* whenever the collector registered it, the entry it installs is started and
\* carries the collector's notification channel, and no new channel is made.
C13_CollectorChannelReused ==
    [][ ChecksumInstallStep =>
          LET id == CallChecksumID
              c == checksums[id]
          IN  (c # None /\ ~c[1].started) =>
                 /\ crashed' = "none"
                 /\ checksums'[id] # None
                 /\ checksums'[id][1].started
                 /\ checksums'[id][1].notify.ch = c[1].notify.ch
                 /\ chanCount' = chanCount ]_vars

\* A collector registered first, with a deadline, and the command then applied:
\* the entry is started, on the collector's channel, and no channel was made.
C13_Witness ==
    /\ AppliedChecksum
    /\ aLast.crash = "none"
    /\ aLast.pre[1].checksums[LastChecksumID] # None
    /\ ~aLast.pre[1].checksums[LastChecksumID][1].started
    /\ aLast.pre[1].checksums[LastChecksumID][1].gcTimestamp = 2
    /\ checksums[LastChecksumID] # None
    /\ checksums[LastChecksumID][1].started
    /\ checksums[LastChecksumID][1].notify.ch
         = aLast.pre[1].checksums[LastChecksumID][1].notify.ch
    /\ chanCount = aLast.pre[1].chanCount

\* C14: computeChecksumPostApply on a command whose ID has a started entry is
\* fatal whatever the entry's digest and gcTimestamp are, and the map is left
\* as it was: no entry is overwritten, no channel made, no snapshot taken, no
\* task launched.
C14_DuplicateChecksumFatal ==
    [][ ChecksumInstallStep =>
          LET c == checksums[CallChecksumID]
          IN  (c # None /\ c[1].started) =>
                 /\ crashed' = "duplicated checksum ID"
                 /\ checksums' = checksums
                 /\ chanCount' = chanCount
                 /\ snapshots' = snapshots
                 /\ tasks' = tasks ]_vars

\* The second apply of an ID whose first computation had finished with a
\* digest and a gcTimestamp: fatal.
C14_Witness ==
    /\ AppliedChecksum
    /\ crashed = "duplicated checksum ID"
    /\ checksums[LastChecksumID] # None
    /\ checksums[LastChecksumID][1].started
    /\ checksums[LastChecksumID][1].checksum = "sha"
    /\ checksums[LastChecksumID][1].gcTimestamp # 0

\* C15: a compute-checksum command of another version than
\* ReplicaChecksumVersion, once past the duplicate check, still installs the
\* started entry; the call then completes it with a nil digest (gcTimestamp
\* set, channel closed) and returns: no engine snapshot, no checkpoint, no
\* asynchronous task.
C15_VersionMismatchAborts ==
    [][ /\ (/\ ChecksumInstallStep
            /\ aCmd[1].w.ComputeChecksum[1].Version # ReplicaChecksumVersion
            /\ ~checksumDuplicate(checksums[CallChecksumID])) =>
               /\ crashed' = "none"
               /\ checksums'[CallChecksumID] # None
               /\ checksums'[CallChecksumID][1].started
               /\ checksums'[CallChecksumID][1].checksum = "nil"
               /\ apc' = "ccMismatch"
        /\ RanSection("ccMismatch") =>
               /\ crashed' = "none"
               /\ aCmd[1].w.ComputeChecksum[1].Version # ReplicaChecksumVersion
               /\ checksums'[CallChecksumID] # None
               /\ checksums'[CallChecksumID][1].started
               /\ checksums'[CallChecksumID][1].checksum = "nil"
               /\ checksums'[CallChecksumID][1].gcTimestamp # 0
               /\ checksums'[CallChecksumID][1].notify.closed
               /\ doneCount'[CallChecksumID] = 1
               /\ tasks' = tasks
               /\ snapshots' = snapshots
               /\ apc' \notin {"ccSnapshot", "ccRunTask", "ccNotRun", "ccClose"}
        /\ (/\ CallEnds /\ AppliedChecksum' /\ aLast'.crash = "none"
            /\ aLast'.input[1].ComputeChecksum[1].Version # ReplicaChecksumVersion) =>
               /\ "incompatible ComputeChecksum versions" \in aLast'.eff
               /\ aLast'.eff \cap {"NewSnapshot", "CreateCheckpoint", "RunAsyncTask"} = {}
      ]_vars

\* A command of another version that asked for a checkpoint was applied: its
\* entry is started and done with a nil digest, and no checkpoint was made.
C15_Witness ==
    /\ AppliedChecksum
    /\ aLast.input[1].ComputeChecksum[1].Version # ReplicaChecksumVersion
    /\ aLast.input[1].ComputeChecksum[1].Checkpoint
    /\ aLast.crash = "none"
    /\ "CreateCheckpoint" \notin aLast.eff
    /\ checksums[LastChecksumID] # None
    /\ checksums[LastChecksumID][1].started
    /\ checksums[LastChecksumID][1].checksum = "nil"
    /\ checksums[LastChecksumID][1].notify.closed

\* The evaluation made got past the timestamp check and evaluateWriteBatch
\* returned no error.
EvaluationSucceeded == evIn[1].Timestamp # 0 /\ evIn[1].evalErr = "nil"

\* The evaluation made ended in an error that is returned: the zero-timestamp
\* rejection, or an error of evaluateWriteBatch whose transaction, if it has
\* one, belongs to a transactional batch.
EvaluationFailed ==
    \/ evIn[1].Timestamp = 0
    \/ evIn[1].evalErr = "err"
    \/ evIn[1].evalErr = "errTxn" /\ evIn[1].baTxn

\* C16: evaluateProposal reports needConsensus exactly when the evaluation
\* succeeded and the write batch is non-empty, or the stats delta is non-zero,
\* or the replicated result is non-zero, or the clock is in clockless mode.
C16_NeedConsensusIff ==
    evIn # None =>
        ( evOut[1].ev.needConsensus
          <=> /\ EvaluationSucceeded
              /\ \/ ~evIn[1].batchEmpty
                 \/ evIn[1].ms # 0
                 \/ evIn[1].replicated # ZeroRER
                 \/ evIn[1].clockless )

\* A successful evaluation with nothing to replicate, in clockless mode: it
\* needs consensus, and the proposal carries a Raft command.
C16_Witness ==
    /\ evIn # None
    /\ EvaluationSucceeded
    /\ evIn[1].batchEmpty /\ evIn[1].ms = 0 /\ evIn[1].replicated = ZeroRER
    /\ evIn[1].clockless
    /\ evOut[1].ev.needConsensus
    /\ evOut[1].rtp.proposal[1].command # None

\* C17: when evaluateWriteBatch returns an error (whose transaction, if any,
\* belongs to a transactional batch), evaluateProposal returns that error with
\* needConsensus false, a zero replicated result, and a local result that holds
\* the detached intents, the detached ended transactions and the metrics and
\* nothing else: no reply, no other flag.
C17_FailedEvaluationWhitelist ==
    ( /\ evIn # None
      /\ evIn[1].Timestamp # 0
      /\ evIn[1].evalErr # "nil"
      /\ ~(evIn[1].evalErr = "errTxn" /\ ~evIn[1].baTxn) )
    => LET ev == evOut[1].ev
           res == ev.res[1]
       IN  /\ ~ev.fatal
           /\ ev.pErr = evIn[1].evalErr
           /\ ~ev.needConsensus
           /\ ev.res # None
           /\ res.Replicated = ZeroRER
           /\ res.WriteBatch = None
           /\ res.Local.Intents = Some(IF evIn[1].local.Intents = None THEN <<>>
                                       ELSE evIn[1].local.Intents[1])
           /\ res.Local.EndTxns # None
           /\ \A i \in 1..Len(res.Local.EndTxns[1]) : res.Local.EndTxns[1][i] = "always"
           /\ res.Local.Metrics = evIn[1].local.Metrics
           /\ [res.Local EXCEPT !.Intents = None, !.EndTxns = None, !.Metrics = None]
                = ZeroLocal

\* An evaluation that had set every local field and a replicated result failed:
\* the flags and the updated transactions are gone, the metrics are kept.
C17_Witness ==
    /\ evIn # None
    /\ evIn[1].Timestamp # 0
    /\ evIn[1].evalErr = "err"
    /\ evIn[1].local.GossipFirstRange
    /\ evIn[1].local.UpdatedTxns # None
    /\ evIn[1].replicated # ZeroRER
    /\ ~evOut[1].ev.res[1].Local.GossipFirstRange
    /\ evOut[1].ev.res[1].Local.Metrics = Some("metrics")

\* C18 as stated: on every error path of evaluation, the rejection of a
\* zero-timestamp batch included, requestToProposal does not crash and returns
\* the error together with a non-nil proposal: latch hook, completion channel
\* of capacity 1, local result, no Raft command.
C18_ProposalOnEveryErrorPath ==
    (evIn # None /\ EvaluationFailed) =>
        /\ evOut[1].rtp.crash = "none"
        /\ evOut[1].rtp.pErr # "nil"
        /\ evOut[1].rtp.proposal # None
        /\ evOut[1].rtp.proposal[1].endCmds = evOut[1].endCmds
        /\ evOut[1].rtp.proposal[1].doneChCap = 1
        /\ evOut[1].rtp.proposal[1].Local # None
        /\ evOut[1].rtp.proposal[1].command = None

\* A handleReplicatedEvalResult call that ran to its return.
ReplicatedApplied ==
    /\ aLast.fn = "handleReplicatedEvalResult"
    /\ aLast.crash = "none"

\* What is left of a State once the truncated state, a zero-valued Stats and an
\* applied-state-key flag the replica already has are taken out.
NonTrivialState(s, uask) ==
    [s EXCEPT !.TruncatedState = None,
              !.Stats = IF s.Stats = Some(0) THEN None ELSE s.Stats,
              !.UsingAppliedStateKey = s.UsingAppliedStateKey /\ ~uask]

\* What is left of a result once the fields no action is taken on, BlockReads,
\* the stats delta, the Raft-log-size delta, the suggested compactions and the
\* trivial part of the State are taken out.
NonTrivialRER(r, uask) ==
    [r EXCEPT !.IsLeaseRequest = FALSE, !.Timestamp = 0, !.PrevLeaseProposal = None,
              !.BlockReads = FALSE, !.Delta = 0, !.RaftLogDelta = 0,
              !.SuggestedCompactions = <<>>,
              !.State = IF r.State = None THEN None
                        ELSE IF NonTrivialState(r.State[1], uask) = ZeroReplicaState
                        THEN None
                        ELSE Some(NonTrivialState(r.State[1], uask))]

\* C19 as stated: handleReplicatedEvalResult returns shouldAssert = true if and
\* only if the result it was given is non-zero, that is, non-zero before the
\* stats delta, the truncated state and the Raft-log-size delta are processed.
\* A result with only a stats delta refutes it.
C19_ShouldAssertIffNonZeroBefore ==
    ReplicatedApplied => (aLast.shouldAssert <=> aLast.input[1] # ZeroRER)

\* C19 amended: handleReplicatedEvalResult returns shouldAssert = true if and
\* only if the result is still non-zero after the trivial updates (the fields no
\* action is taken on, BlockReads, stats delta, truncated state, zero-valued
\* Stats, an applied-state-key flag the replica already has, Raft-log-size
\* delta, suggested compactions) have been processed and zeroed.
C19_ShouldAssertIffNonZeroAfterTrivial ==
    ReplicatedApplied =>
        (aLast.shouldAssert <=>
             NonTrivialRER(aLast.input[1], aLast.pre[1].rep.UsingAppliedStateKey) # ZeroRER)

\* A result with only a stats delta was applied and asked for no assertion.
C19_Witness ==
    /\ ReplicatedApplied
    /\ aLast.input[1] # ZeroRER
    /\ aLast.input[1].Delta # 0
    /\ [aLast.input[1] EXCEPT !.Delta = 0] = ZeroRER
    /\ ~aLast.shouldAssert

\* A handleEvalResultRaftMuLocked call that ran to its return.
CommandApplied ==
    /\ aLast.fn = "handleEvalResultRaftMuLocked"
    /\ aLast.crash = "none"

\* The result holds nothing but a stats delta, a truncated state, a
\* Raft-log-size delta, suggested compactions and an applied-state-key flag the
\* replica already has, and at least one of them.
TrivialOnly(r, uask) ==
    /\ r # ZeroRER
    /\ [r EXCEPT !.Delta = 0, !.RaftLogDelta = 0, !.SuggestedCompactions = <<>>,
                 !.State = IF r.State = None THEN None
                           ELSE Some([r.State[1] EXCEPT
                                        !.TruncatedState = None,
                                        !.UsingAppliedStateKey =
                                            r.State[1].UsingAppliedStateKey /\ ~uask])]
       \in {ZeroRER, [ZeroRER EXCEPT !.State = Some(ZeroReplicaState)]}
    /\ r.State # None => r.State[1] # ZeroReplicaState

\* The result carries a split, a merge, a descriptor, a lease, a GC threshold,
\* a change of replicas or a checksum computation.
CarriesNonTrivial(r) ==
    \/ r.Split # None
    \/ r.Merge # None
    \/ r.ChangeReplicas # None
    \/ r.ComputeChecksum # None
    \/ /\ r.State # None
       /\ \/ r.State[1].Desc # None
          \/ r.State[1].Lease # None
          \/ r.State[1].GCThreshold # None

\* C20: a command whose replicated result holds only trivial updates yields
\* shouldAssert = false and handleEvalResultRaftMuLocked does not run the state
\* assertion; a result that carries a split, merge, descriptor, lease, GC
\* threshold, change-replicas or compute-checksum yields shouldAssert = true and
\* the assertion is run.
C20_TrivialOnlySkipsAssertion ==
    CommandApplied =>
        LET r == aLast.input[1]
            uask == aLast.pre[1].rep.UsingAppliedStateKey
        IN  /\ TrivialOnly(r, uask) =>
                  (~aLast.shouldAssert /\ "assertStateLocked" \notin aLast.eff)
            /\ CarriesNonTrivial(r) =>
                  (aLast.shouldAssert /\ "assertStateLocked" \in aLast.eff)

\* A command with a stats delta, a truncated state and an applied-state-key flag
\* the replica already had was applied without the assertion.
C20_Witness ==
    /\ CommandApplied
    /\ aLast.pre[1].rep.UsingAppliedStateKey
    /\ aLast.input[1].Delta # 0
    /\ aLast.input[1].State # None
    /\ aLast.input[1].State[1].UsingAppliedStateKey
    /\ aLast.input[1].State[1].TruncatedState # None
    /\ TrivialOnly(aLast.input[1], TRUE)
    /\ ~aLast.shouldAssert
    /\ "assertStateLocked" \notin aLast.eff

\* C21: after every apply, whatever the Raft-log-size deltas of the commands
\* applied so far (positive, negative, or lowered by the bytes reclaimed from
\* sideloaded storage), raftLogSize and raftLogLastCheckSize are both >= 0.
C21_RaftLogSizesNonNegative ==
    /\ rep.raftLogSize >= 0
    /\ rep.raftLogLastCheckSize >= 0

\* A command took more off the Raft log size than there was, and both counters
\* stand at zero.
C21_Witness ==
    /\ ReplicatedApplied
    /\ aLast.pre[1].rep.raftLogSize > 0
    /\ aLast.pre[1].rep.raftLogSize + aLast.input[1].RaftLogDelta < 0
    /\ rep.raftLogSize = 0
    /\ rep.raftLogLastCheckSize = 0

\* The stats delta of the call in progress while it is at one of the sections,
\* zero otherwise.
DeltaNotYetAdded(sections) == IF apc \in sections THEN aCmd[1].rResult.Delta ELSE 0

\* C22: after any sequence of applied commands the in-memory range stats are
\* the initial stats plus the sum of the commands' stats deltas, however the
\* sum is split over the commands, and the store metrics have received the
\* same deltas; each apply adds its own delta exactly once to both: to the
\* range stats in its first critical section, to the store metrics right after
\* it.
C22_StatsAreSumOfDeltas ==
    /\ rep.Stats + DeltaNotYetAdded({"lock", "stats"}) = InitRep.Stats + deltaSum
    /\ storeStats + DeltaNotYetAdded({"lock", "stats", "metrics"}) = deltaSum
    /\ aLast.fn \in {"handleReplicatedEvalResult", "handleEvalResultRaftMuLocked"} =>
           /\ rep.Stats = aLast.pre[1].rep.Stats + aLast.input[1].Delta
           /\ storeStats = aLast.pre[1].storeStats + aLast.input[1].Delta

\* Two commands with a delta of 1 each were applied, and the stats stand where
\* one command with a delta of 2 leaves them.
C22_Witness ==
    /\ ReplicatedApplied
    /\ applyCount = 2
    /\ aLast.input[1].Delta = 1
    /\ aLast.pre[1].rep.Stats = 1
    /\ rep.Stats = 2
    /\ storeStats = 2

\* An addSSTablePreApply call was made.
SSTApplied == sstIn # None /\ sstOut # None

\* The calls of the given kind among those the last call made.
SSTOps(op) == { i \in 1 .. Len(sstOut[1].eff) : sstOut[1].eff[i].op = op }

\* C23: addSSTablePreApply crashes when the CRC32 recomputed over the payload
\* differs from the stored one, before any sideloaded-file lookup, engine delay,
\* link, file write or ingest; a payload whose CRC matches is not rejected by
\* this check.
C23_ChecksumMismatchFatalFirst ==
    SSTApplied =>
        LET sst == sstIn[1].sst
            out == sstOut[1]
        IN  IF CRC32(sst.Data) # sst.CRC32
            THEN out.crash = "fatal: checksum does not match" /\ out.eff = <<>>
            ELSE out.crash # "fatal: checksum does not match" /\ out.eff # <<>>

\* A non-empty payload stored with the CRC of another payload was rejected,
\* with collaborators that would have failed later.
C23_Witness ==
    /\ SSTApplied
    /\ sstIn[1].sst.Data # <<>>
    /\ sstIn[1].sst.CRC32 = CRC32(<<>>)
    /\ sstIn[1].env.filenameErr
    /\ sstOut[1].crash = "fatal: checksum does not match"
    /\ sstOut[1].eff = <<>>

\* The call got to the hardlink's ingest: the checksum matched, the sideloaded
\* file was found, the engine is on disk, the file has one link, the hardlink
\* was made.
SSTLinked ==
    /\ SSTApplied
    /\ CRC32(sstIn[1].sst.Data) = sstIn[1].sst.CRC32
    /\ ~sstIn[1].env.filenameErr
    /\ ~sstIn[1].env.inmem
    /\ ~sstIn[1].env.statErr /\ sstIn[1].env.links = 1
    /\ ~sstIn[1].env.linkErr

\* C24: on an on-disk engine, when the sideloaded file has link count exactly
\* 1, the hardlink succeeds and the ingest with modification disallowed
\* succeeds, addSSTablePreApply returns copied = false, has written no copy of
\* the payload and has made no second ingest call.
C24_LinkedIngestMakesNoCopy ==
    (SSTLinked /\ sstIn[1].env.ingestErr = None) =>
        /\ sstOut[1].crash = "none"
        /\ ~sstOut[1].copied
        /\ SSTOps("writeFileSyncing") = {}
        /\ SSTOps("inmem.WriteFile") = {}
        /\ Cardinality(SSTOps("IngestExternalFiles")) = 1
        /\ \A i \in SSTOps("IngestExternalFiles") :
               /\ ~sstOut[1].eff[i].modify
               /\ sstOut[1].eff[i].path = "sideloaded.ingested"
               /\ SSTOps("LinkFile") = {i - 1}

\* A non-empty payload was ingested through the hardlink.
C24_Witness ==
    /\ SSTLinked
    /\ sstIn[1].env.ingestErr = None
    /\ Len(sstIn[1].sst.Data) = MaxPayload
    /\ sstOut[1].crash = "none"
    /\ ~sstOut[1].copied

\* The ingest error is of the engine's native type and one part of its message
\* is one of the two sequence-number messages.
SeqNoError(e) ==
    /\ e.native
    /\ \E i \in 1 .. Len(e.msg) :
           e.msg[i] \in {"Global seqno is required, but disabled",
                         "external file have non zero sequence number"}

\* C25: when the ingest of the hardlink fails, addSSTablePreApply first deletes
\* the hardlink, a failure to delete being fatal, and then falls back to the
\* copy only if the error is of the engine's native type and its message
\* contains one of the two sequence-number substrings; every other ingest error
\* is fatal and no copy is attempted.
C25_FallbackOnlyOnSeqNoError ==
    (SSTLinked /\ sstIn[1].env.ingestErr # None) =>
        LET env == sstIn[1].env
            out == sstOut[1]
            copyOps == SSTOps("os.MkdirAll") \cup SSTOps("os.Stat") \cup SSTOps("os.Remove")
                       \cup SSTOps("writeFileSyncing")
        IN  /\ \E i \in SSTOps("IngestExternalFiles") :
                   /\ ~out.eff[i].modify
                   /\ SSTOps("DeleteFile") = {i + 1}
                   /\ \A j \in copyOps : j > i + 1
            /\ env.rmErr =>
                   out.crash = "fatal: failed to move ingest sst" /\ copyOps = {}
            /\ (~env.rmErr /\ SeqNoError(env.ingestErr[1])) =>
                   /\ SSTOps("os.MkdirAll") # {}
                   /\ out.crash \notin {"fatal: while ingesting (link)",
                                        "fatal: failed to move ingest sst"}
            /\ (~env.rmErr /\ ~SeqNoError(env.ingestErr[1])) =>
                   /\ out.crash = "fatal: while ingesting (link)"
                   /\ copyOps = {}
                   /\ ~out.copied

\* The engine refused the hardlink with its sequence-number message inside a
\* longer one, and the payload was copied and ingested.
C25_Witness ==
    /\ SSTLinked
    /\ sstIn[1].env.ingestErr # None
    /\ sstIn[1].env.ingestErr[1].native
    /\ Len(sstIn[1].env.ingestErr[1].msg) > 1
    /\ SSTOps("DeleteFile") # {}
    /\ sstOut[1].crash = "none"
    /\ sstOut[1].copied
    /\ Cardinality(SSTOps("IngestExternalFiles")) = 2

\* The fatals of handleLocalEvalResult.
LocalFatals ==
    {"Intents should be nil", "EndTxns should be nil", "unhandled field in LocalEvalResult"}

\* C26: within one command application, handleEvalResultRaftMuLocked applies
\* the replicated result completely before the local result, applies the local
\* result only when one is present, and runs the state assertion, if
\* requested, only after both.
C26_ReplicatedThenLocalThenAssert ==
    /\ apc \in {"local", "assert"} =>
           /\ aCmd[1].w = ZeroRER
           /\ apc = "local" => aCmd[1].lResult # None
           /\ apc = "assert" => aCmd[1].shouldAssert
    /\ aLast.fn = "handleEvalResultRaftMuLocked" =>
        LET st == aLast.steps
            at(name) == { i \in 1 .. Len(st) : st[i] = name }
            replicatedFatal == aLast.crash \notin ({"none"} \cup LocalFatals)
        IN  /\ at("handleReplicatedEvalResult") = {1}
            /\ replicatedFatal => st = <<"handleReplicatedEvalResult">>
            /\ ~replicatedFatal => aLast.final[1] = ZeroRER
            /\ at("handleLocalEvalResult") =
                   IF aLast.local # None /\ ~replicatedFatal THEN {2} ELSE {}
            /\ at("assertStateLocked") =
                   IF aLast.shouldAssert /\ aLast.crash = "none" THEN {Len(st)} ELSE {}
            /\ at("assertStateLocked") # {} =>
                   Len(st) = IF aLast.local # None THEN 3 ELSE 2

\* The proposer applied a command with a non-trivial replicated result and a
\* local result, and then ran the assertion.
C26_Witness ==
    /\ CommandApplied
    /\ aLast.local # None
    /\ aLast.shouldAssert
    /\ aLast.steps = <<"handleReplicatedEvalResult", "handleLocalEvalResult",
                       "assertStateLocked">>
    /\ "gossipFirstRange task" \in aLast.eff

\* C27: handleReplicatedEvalResult and handleLocalEvalResult never return
\* normally while a field of their working copy of the result is still
\* non-zero: a field left at the end of processing crashes the process.
C27_ResidualFieldCrashes ==
    /\ aLast.fn = "handleReplicatedEvalResult" =>
           /\ aLast.crash = "none" => aLast.final[1] = ZeroRER
           /\ aLast.final[1] # ZeroRER => aLast.crash # "none"
    /\ aLast.fn = "handleLocalEvalResult" =>
           /\ aLast.crash = "none" => aLast.final[1] = ZeroLocal
           /\ aLast.final[1] # ZeroLocal => aLast.crash # "none"

\* A result with a field the handler has no step for was applied: the field was
\* still set at the end and the process crashed on the final check.
C27_Witness ==
    /\ aLast.fn = "handleReplicatedEvalResult"
    /\ aLast.input[1].AddSSTable # None
    /\ aLast.final[1] = aLast.input[1]
    /\ aLast.crash = "unhandled field in ReplicatedEvalResult"

\* C28: handleLocalEvalResult crashes if the local result still carries an
\* intents list or an ended-transactions list (either pointer non-nil, the
\* list empty or not), before any gossip, queue or metrics side effect.
C28_UndetachedListsFatal ==
    ( /\ aLast.fn = "handleLocalEvalResult"
      /\ (aLast.input[1].Intents # None \/ aLast.input[1].EndTxns # None) )
    => /\ aLast.crash \in {"Intents should be nil", "EndTxns should be nil"}
       /\ aLast.crash = "Intents should be nil" <=> aLast.input[1].Intents # None
       /\ aLast.eff = {}

\* A result with an empty, non-nil ended-transactions list and two flags set
\* was applied: the process crashed with no queue poked and nothing gossiped.
C28_Witness ==
    /\ aLast.fn = "handleLocalEvalResult"
    /\ aLast.input[1].EndTxns = Some(<<>>)
    /\ aLast.input[1].MaybeAddToSplitQueue
    /\ aLast.input[1].MaybeGossipSystemConfig
    /\ aLast.crash = "EndTxns should be nil"
    /\ aLast.eff = {}

\* C29: requestToProposal attaches a Raft command to the proposal if and only
\* if evaluateProposal reported needConsensus = true; the command is nil
\* whenever the evaluation returned an error, so a failed evaluation is never
\* proposed to Raft.
C29_CommandIffNeedConsensus ==
    evOut # None =>
        LET ev == evOut[1].ev
            rtp == evOut[1].rtp
        IN  /\ rtp.proposal # None =>
                   (rtp.proposal[1].command # None <=> ev.needConsensus)
            /\ rtp.proposal = None => rtp.crash # "none"
            /\ ev.pErr # "nil" =>
                   (rtp.proposal = None \/ rtp.proposal[1].command = None)
            /\ rtp.proposal # None /\ rtp.proposal[1].command # None =>
                   /\ EvaluationSucceeded
                   /\ rtp.proposal[1].command[1].ReplicatedEvalResult = ev.res[1].Replicated

\* The evaluation of a non-empty batch failed, and the proposal came back
\* with the error and no command.
C29_Witness ==
    /\ evIn # None
    /\ evIn[1].Timestamp # 0
    /\ evIn[1].evalErr = "err"
    /\ ~evIn[1].batchEmpty
    /\ evIn[1].replicated # ZeroRER
    /\ evOut[1].rtp.crash = "none"
    /\ evOut[1].rtp.pErr # "nil"
    /\ evOut[1].rtp.proposal # None
    /\ evOut[1].rtp.proposal[1].command = None

\* A handleReplicatedEvalResult call whose result carried a truncated state.
TruncationApplied ==
    /\ aLast.fn = "handleReplicatedEvalResult"
    /\ aLast.input[1].State # None
    /\ aLast.input[1].State[1].TruncatedState # None

\* C30: on a truncated-state change, handleReplicatedEvalResult installs the
\* new truncated state, clears the Raft entry cache and truncates the
\* sideloaded storage up to and including the new truncated index, and takes
\* the bytes reclaimed from the sideloaded storage off the command's
\* Raft-log-size delta before the delta is applied; if the sideloaded
\* truncation fails, nothing is subtracted and the apply continues.
C30_TruncationApplied ==
    TruncationApplied =>
        LET new == aLast.input[1].State[1].TruncatedState[1]
            pre == aLast.pre[1].rep
            delta == aLast.input[1].RaftLogDelta
            reclaimed == IF aLast.truncateTo.err THEN 0 ELSE aLast.truncateTo.size
            expected == pre.raftLogSize + delta - reclaimed
        IN  /\ rep.TruncatedState = Some(new)
            /\ {"raftEntryCache.Clear", "sideloaded.TruncateTo"} \subseteq aLast.eff
            /\ rep.raftEntryCacheClearedBelow = new.Index + 1
            /\ rep.sideloadedTruncatedBelow =
                   IF aLast.truncateTo.err THEN pre.sideloadedTruncatedBelow
                   ELSE new.Index + 1
            /\ rep.raftLogSize = IF expected < 0 THEN 0 ELSE expected
            /\ aLast.crash = "none"
            /\ aLast.final[1] = ZeroRER

\* A truncation reclaimed a byte from the sideloaded storage, which was taken
\* off the command's positive delta.
C30_Witness ==
    /\ TruncationApplied
    /\ ~aLast.truncateTo.err
    /\ aLast.truncateTo.size = 1
    /\ aLast.input[1].RaftLogDelta = 1
    /\ aLast.pre[1].rep.raftLogSize = 1
    /\ rep.raftLogSize = 1
    /\ rep.TruncatedState = Some([Index |-> 1])
    /\ rep.sideloadedTruncatedBelow = 2

\* The Raft-log-size delta the last command is left with once the truncation
\* has taken the reclaimed sideloaded bytes off it.
NetRaftLogDelta ==
    aLast.input[1].RaftLogDelta
    - (IF /\ aLast.input[1].State # None
          /\ aLast.input[1].State[1].TruncatedState # None
          /\ ~aLast.truncateTo.err
       THEN aLast.truncateTo.size ELSE 0)

\* How much raftLogSize stood above raftLogLastCheckSize when the last command
\* began to apply.
GrowthBefore == aLast.pre[1].rep.raftLogSize - aLast.pre[1].rep.raftLogLastCheckSize

\* The last command put the range on the Raft log queue.
RaftLogEnqueued == "raftLogQueue.MaybeAddAsync" \in aLast.eff

\* The step is the return of a handleReplicatedEvalResult call.  The caller
\* holds raftMu, so that the Raft log has not grown since the call began.
ReplicatedApplyStep == CallEnds /\ ReplicatedApplied'

\* C31, as stated: the range is put on the Raft log queue during an apply only
\* if the command carries no net Raft-log-size delta and the growth
\* raftLogSize - raftLogLastCheckSize exceeds the threshold; at that moment
\* raftLogLastCheckSize is set to raftLogSize.
C31_EnqueuedOnlyAboveThreshold ==
    [][ ReplicatedApplyStep /\ RaftLogEnqueued' =>
          /\ NetRaftLogDelta' = 0
          /\ GrowthBefore' > RaftLogQueueStaleSize
          /\ rep'.raftLogLastCheckSize = rep'.raftLogSize ]_vars

\* C31, amended: the range is put on the Raft log queue during an apply exactly
\* when the command carries no net Raft-log-size delta and the growth
\* raftLogSize - raftLogLastCheckSize has reached the threshold (is equal to it
\* or above); at that moment raftLogLastCheckSize is set to raftLogSize, which
\* stays as it was, so that a following delta-free command finds no growth and
\* does not enqueue again until the log has grown by another threshold; a
\* delta-free command that does not enqueue leaves both sizes as they were.
C31_EnqueuedOnlyAtThreshold ==
    [][ /\ ReplicatedApplyStep =>
            /\ RaftLogEnqueued' <=>
                   /\ NetRaftLogDelta' = 0
                   /\ GrowthBefore' >= RaftLogQueueStaleSize
            /\ RaftLogEnqueued' =>
                   /\ rep'.raftLogSize = aLast'.pre[1].rep.raftLogSize
                   /\ rep'.raftLogLastCheckSize = rep'.raftLogSize
            /\ ~RaftLogEnqueued' /\ NetRaftLogDelta' = 0 =>
                   /\ rep'.raftLogSize = aLast'.pre[1].rep.raftLogSize
                   /\ rep'.raftLogLastCheckSize = aLast'.pre[1].rep.raftLogLastCheckSize
        /\ RanSection("raftLog") =>
            /\ ("raftLogQueue.MaybeAddAsync" \in aCmd'[1].eff) <=>
                   /\ aCmd[1].w.RaftLogDelta = 0
                   /\ rep.raftLogSize - rep.raftLogLastCheckSize >= RaftLogQueueStaleSize
            /\ "raftLogQueue.MaybeAddAsync" \in aCmd'[1].eff =>
                   rep'.raftLogLastCheckSize = rep.raftLogSize ]_vars

\* A delta-free command has put the range on the queue, and the next delta-free
\* command, applied before the log grew by another threshold, has not.
C31_Witness ==
    /\ ReplicatedApplied
    /\ applyCount = 2
    /\ NetRaftLogDelta = 0
    /\ aLast.pre[1].rep.raftLogSize >= RaftLogQueueStaleSize
    /\ aLast.pre[1].rep.raftLogLastCheckSize >= RaftLogQueueStaleSize
    /\ GrowthBefore = 1
    /\ ~RaftLogEnqueued
    /\ rep = aLast.pre[1].rep

\* The last apply was handleReplicatedEvalResult on a result with a merge
\* trigger, and store.MergeRange returned an error.
MergeFailed ==
    /\ aLast.fn = "handleReplicatedEvalResult"
    /\ aLast.input[1].Merge # None
    /\ aLast.mergeRange.err

\* What the handler calls for the parts of a result that come after the merge.
AfterMergeEffects ==
    {"setDesc", "install", "maybeWatchForMerge", "setTimestampCacheLowWaterMark",
     "replicaGCQueue.AddAsync", "NewSnapshot", "RunAsyncTask"}

\* C32: if the store-level merge of a merge trigger returns an error, the
\* process crashes at that point: the descriptor, the lease, the GC
\* thresholds, the change of replicas and the compute-checksum of the same
\* result are not applied (they are still in the result, the replica is as it
\* was before, none of their collaborators is called), and the handler does
\* not return.
C32_MergeFailureFatal ==
    MergeFailed =>
        /\ crashed = "failed to update store after merging range"
        /\ aLast.crash = crashed
        /\ "store.MergeRange" \in aLast.eff
        /\ aLast.eff \cap AfterMergeEffects = {}
        /\ aLast.final[1].Merge = aLast.input[1].Merge
        /\ aLast.final[1].State = aLast.input[1].State
        /\ aLast.final[1].ChangeReplicas = aLast.input[1].ChangeReplicas
        /\ aLast.final[1].ComputeChecksum = aLast.input[1].ComputeChecksum
        /\ rep.Desc = aLast.pre[1].rep.Desc
        /\ rep.GCThreshold = aLast.pre[1].rep.GCThreshold
        /\ rep.TxnSpanGCThreshold = aLast.pre[1].rep.TxnSpanGCThreshold
        /\ rLease = aLast.pre[1].lease
        /\ checksums = aLast.pre[1].checksums
        /\ tasks = aLast.pre[1].tasks

\* The merge of a result that also carries a descriptor, a lease, thresholds,
\* a change of replicas and a compute-checksum failed after an earlier merge
\* had gone through.
C32_Witness ==
    /\ MergeFailed
    /\ applyCount = 2
    /\ aLast.input[1].State # None
    /\ aLast.input[1].State[1].Desc # None
    /\ aLast.input[1].State[1].Lease # None
    /\ aLast.input[1].ChangeReplicas # None
    /\ aLast.input[1].ComputeChecksum # None
    /\ crashed # "none"
    /\ rep.Desc = "desc1"

\* A command with BlockReads set is being applied.
ApplyingBlockReads == aCmd # None /\ apc # "idle" /\ aCmd[1].rResult.BlockReads

\* The call in progress is inside handleReplicatedEvalResult, past the section
\* that takes readOnlyCmdMu.
InReplicatedPastLock == apc \notin {"idle", "lock", "local", "assert", "fatal"}

\* No reader holds readOnlyCmdMu and the applier holds it exclusively.
ReadsBlocked == readOnlyCmdMu.writer /\ readOnlyCmdMu.readers = 0

\* C33, as stated: when a result has BlockReads set, readOnlyCmdMu is acquired
\* exclusively before any side effect of the command is applied and stays held
\* for the remainder of the command's application (the replicated result, the
\* local result, the state assertion), so that no shared reader runs beside any
\* later step of that apply; the mutex is released when the application ends.
C33_ReadsBlockedToEndOfCommand ==
    /\ ApplyingBlockReads /\ apc = "lock" => rep = aCmd[1].pre.rep
    /\ ApplyingBlockReads /\ apc \notin {"lock", "fatal"} => ReadsBlocked
    /\ apc = "idle" => ~readOnlyCmdMu.writer

\* C33, amended: when a result has BlockReads set, readOnlyCmdMu is acquired
\* exclusively before any side effect of the command is applied and stays held
\* for the remainder of handleReplicatedEvalResult, so that no shared reader
\* runs beside any later step of that handler; the mutex is released when
\* handleReplicatedEvalResult returns, before the local result is applied and
\* before the state assertion, and is never left locked on a normal return.
C33_ReadsBlockedToEndOfReplicated ==
    /\ ApplyingBlockReads /\ apc = "lock" =>
           /\ rep = aCmd[1].pre.rep
           /\ storeStats = aCmd[1].pre.storeStats
           /\ aCmd[1].eff = {}
    /\ ApplyingBlockReads /\ InReplicatedPastLock => ReadsBlocked
    /\ apc \in {"lock", "local", "assert", "idle"} => ~readOnlyCmdMu.writer

\* A command with BlockReads set has gone through handleReplicatedEvalResult
\* with the mutex held, has released it, and its local result is about to be
\* applied while a read-only command holds the mutex shared.
C33_Witness ==
    /\ ApplyingBlockReads
    /\ apc = "local"
    /\ aCmd[1].w = ZeroRER
    /\ "readOnlyCmdMu.Lock" \in aCmd[1].eff
    /\ "splitPostApply" \in aCmd[1].eff
    /\ ~readOnlyCmdMu.writer
    /\ readOnlyCmdMu.readers > 0

\* The step is the return of a call that applied a compute-checksum command.
ChecksumAppliedStep == CallEnds /\ AppliedChecksum' /\ crashed' = "none"

\* The last compute-checksum command applied was marked done before
\* computeChecksumPostApply returned: its version is not the replica's, or the
\* task was not accepted.
DoneSynchronously ==
    \/ aLast.input[1].ComputeChecksum[1].Version # ReplicaChecksumVersion
    \/ aLast.checksumEnv.taskErr

\* The entry c has a gcTimestamp and it is before now.
GCTimestampPassed(c, now) == c # None /\ c[1].gcTimestamp # 0 /\ c[1].gcTimestamp < now

\* C34, as stated: after a non-crashing computeChecksumPostApply for ID cid at
\* time now, the checksum map holds for cid an entry with started = true, a nil
\* digest and an unset GC timestamp; every other entry whose GC timestamp is
\* set and earlier than now has been removed, and no entry with an unset GC
\* timestamp is ever removed.
C34_EntryInstalledUnsetGC ==
    [][ /\ ChecksumAppliedStep =>
            LET id == LastChecksumID'
            IN  /\ checksums'[id] # None
                /\ checksums'[id][1].started
                /\ checksums'[id][1].checksum = "nil"
                /\ checksums'[id][1].gcTimestamp = 0
        /\ (ChecksumInstallStep /\ crashed' = "none") =>
                \A o \in ChecksumIDs \ {CallChecksumID} :
                    GCTimestampPassed(checksums[o], aCmd[1].env.now) =>
                        checksums'[o] = None
        /\ \A o \in ChecksumIDs :
               checksums[o] # None /\ checksums[o][1].gcTimestamp = 0 =>
                   checksums'[o] # None ]_vars

\* C34, amended: when the first critical section of a non-crashing
\* computeChecksumPostApply for ID cid at time now is left, the checksum map
\* holds for cid an entry with started = true, a nil digest and an unset GC
\* timestamp, every other entry whose GC timestamp is set and earlier than now
\* has been removed and every other entry is as it was.  When the call returns
\* the entry is there and started; if the call marked the checksum done itself
\* (version mismatch, task not accepted) the digest is nil and the GC timestamp
\* is set; if no computeChecksumDone has run yet the digest is nil and the GC
\* timestamp unset.  No entry with an unset GC timestamp is ever removed.
C34_EntryInstalledOldCollected ==
    [][ /\ (ChecksumInstallStep /\ crashed' = "none") =>
            LET id == CallChecksumID
                now == aCmd[1].env.now
            IN  /\ checksums'[id] # None
                /\ checksums'[id][1].started
                /\ checksums'[id][1].checksum = "nil"
                /\ checksums'[id][1].gcTimestamp = 0
                /\ \A o \in ChecksumIDs \ {id} :
                       IF GCTimestampPassed(checksums[o], now)
                       THEN checksums'[o] = None
                       ELSE checksums'[o] = checksums[o]
        /\ ChecksumAppliedStep =>
            LET id == LastChecksumID'
            IN  /\ checksums'[id] # None
                /\ checksums'[id][1].started
                /\ DoneSynchronously' =>
                       /\ checksums'[id][1].checksum = "nil"
                       /\ checksums'[id][1].gcTimestamp # 0
                       /\ doneCount'[id] = 1
                /\ doneCount'[id] = 0 =>
                       /\ ~DoneSynchronously'
                       /\ checksums'[id][1].checksum = "nil"
                       /\ checksums'[id][1].gcTimestamp = 0
        /\ \A o \in ChecksumIDs :
               checksums[o] # None /\ checksums[o][1].gcTimestamp = 0 =>
                   checksums'[o] # None ]_vars

\* A compute-checksum command was applied at time 3 and handed to its task,
\* which has not run; the other ID's entry, whose GC timestamp was 2, is gone.
C34_Witness ==
    /\ AppliedChecksum
    /\ crashed = "none"
    /\ aLast.checksumEnv.now = 3
    /\ ~DoneSynchronously
    /\ checksums[LastChecksumID] # None
    /\ checksums[LastChecksumID][1].gcTimestamp = 0
    /\ \E t \in tasks : t.id = LastChecksumID /\ ~t.done
    /\ \E o \in ChecksumIDs \ {LastChecksumID} :
          /\ GCTimestampPassed(aLast.pre[1].checksums[o], 3)
          /\ checksums[o] = None

\* The step is the return of a call that applied a compute-checksum command of
\* the replica's version for which RunAsyncTask returned an error.
TaskSubmissionFailedStep ==
    /\ ChecksumAppliedStep
    /\ aLast'.input[1].ComputeChecksum[1].Version = ReplicaChecksumVersion
    /\ aLast'.checksumEnv.taskErr

\* C35: if the asynchronous checksum task cannot be submitted,
\* computeChecksumPostApply marks the checksum done with a nil digest before it
\* returns (one computeChecksumDone call, the entry completed and its channel
\* closed) and closes the engine snapshot it took, so that no snapshot is left
\* open and no task is there to run the task body.
C35_SubmissionFailureDoneAndClosed ==
    [][ /\ (RanSection("ccRunTask") /\ aCmd[1].env.taskErr) =>
              /\ apc' = "ccNotRun"
              /\ tasks' = tasks
              /\ "RunAsyncTask" \notin aCmd'[1].eff
        /\ RanSection("ccNotRun") =>
              LET id == CallChecksumID
              IN  /\ apc' = "ccClose"
                  /\ checksums'[id] # None
                  /\ checksums'[id][1].started
                  /\ checksums'[id][1].checksum = "nil"
                  /\ checksums'[id][1].gcTimestamp # 0
                  /\ checksums'[id][1].notify.closed
                  /\ doneCount[id] = 0 /\ doneCount'[id] = 1
                  /\ snapshots' = snapshots
                  /\ tasks' = tasks
        /\ RanSection("ccClose") =>
              /\ aCmd[1].loc.snap \in snapshots
              /\ snapshots' = snapshots \ {aCmd[1].loc.snap}
              /\ tasks' = tasks
        /\ TaskSubmissionFailedStep =>
              LET id == LastChecksumID'
              IN  /\ "NewSnapshot" \in aLast'.eff
                  /\ "RunAsyncTask" \notin aLast'.eff
                  /\ checksums'[id] # None
                  /\ checksums'[id][1].checksum = "nil"
                  /\ checksums'[id][1].notify.closed
                  /\ doneCount'[id] = 1
                  /\ snapshots' \subseteq { t.snap : t \in tasks' }
                  /\ \A t \in tasks' : t.id = id => t.done ]_vars

\* The task of one checksum was refused while the task of the other ID was
\* running: the refused one is done with a nil digest and only the running
\* task's snapshot is open.
C35_Witness ==
    /\ AppliedChecksum
    /\ crashed = "none"
    /\ aLast.input[1].ComputeChecksum[1].Version = ReplicaChecksumVersion
    /\ aLast.checksumEnv.taskErr
    /\ "NewSnapshot" \in aLast.eff
    /\ checksums[LastChecksumID] # None
    /\ checksums[LastChecksumID][1].notify.closed
    /\ doneCount[LastChecksumID] = 1
    /\ \E t \in tasks : t.id # LastChecksumID /\ ~t.done
    /\ snapshots = { t.snap : t \in tasks }

\* The call got to the link count on an on-disk engine and found that the
\* sideloaded file does not have exactly one link.
SSTAlreadyLinked ==
    /\ SSTApplied
    /\ CRC32(sstIn[1].sst.Data) = sstIn[1].sst.CRC32
    /\ ~sstIn[1].env.filenameErr
    /\ ~sstIn[1].env.inmem
    /\ ~sstIn[1].env.statErr /\ sstIn[1].env.links # 1

\* The only call of the given kind among those the last call made.
SSTOnly(op) == CHOOSE i \in SSTOps(op) : TRUE

\* C36: on an on-disk engine, when the sideloaded file's link count is not 1,
\* no hardlink is attempted (and no ingest without modification); unless a
\* collaborator fails, addSSTablePreApply removes the file found at the ingest
\* path if there is one, then writes a copy of the payload there, then ingests
\* it with modification permitted, once, and returns copied = true.
C36_ReIngestCopies ==
    SSTAlreadyLinked =>
        LET out == sstOut[1]
            env == sstIn[1].env
        IN  /\ SSTOps("LinkFile") = {}
            /\ SSTOps("DeleteFile") = {}
            /\ \A i \in SSTOps("IngestExternalFiles") : out.eff[i].modify
            /\ out.crash = "none" <=>
                   /\ ~env.mkdirErr /\ ~(env.exists /\ env.removeErr)
                   /\ ~env.writeErr /\ ~env.finalIngestErr
            /\ out.crash = "none" =>
                   /\ out.copied
                   /\ Cardinality(SSTOps("os.Stat")) = 1
                   /\ Cardinality(SSTOps("writeFileSyncing")) = 1
                   /\ Cardinality(SSTOps("IngestExternalFiles")) = 1
                   /\ Cardinality(SSTOps("os.Remove")) = (IF env.exists THEN 1 ELSE 0)
                   /\ \A i \in SSTOps("os.Remove") :
                          /\ SSTOnly("os.Stat") < i
                          /\ i < SSTOnly("writeFileSyncing")
                          /\ out.eff[i].path = "sideloaded.ingested"
                   /\ SSTOnly("os.Stat") < SSTOnly("writeFileSyncing")
                   /\ SSTOnly("writeFileSyncing") < SSTOnly("IngestExternalFiles")
                   /\ out.eff[SSTOnly("writeFileSyncing")].path = "sideloaded.ingested"
                   /\ out.eff[SSTOnly("IngestExternalFiles")].path = "sideloaded.ingested"
                   /\ SSTOnly("IngestExternalFiles") = Len(out.eff)

\* The file had two links and an earlier copy lay at the ingest path: it was
\* removed, and a non-empty payload was copied and ingested.
C36_Witness ==
    /\ SSTAlreadyLinked
    /\ sstIn[1].env.links = 2
    /\ sstIn[1].env.exists
    /\ Len(sstIn[1].sst.Data) = MaxPayload
    /\ sstOut[1].crash = "none"
    /\ sstOut[1].copied
    /\ SSTOps("os.Remove") # {}

\* The fatals of the sequence check.
SequenceViolations == {"inversion", "identical", "jump"}

\* C37: over any sequence of leasePostApply calls, whatever permitJump they
\* pass, the sequence number of the lease installed in the replica state never
\* decreases; a call that dies on a sequence violation leaves the installed
\* lease as it was, for good; and a call that passes permitJump = false while
\* the installed sequence is non-zero raises the sequence by at most 1 when it
\* installs its lease.
C37_InstalledSequenceMonotonic ==
    [][ /\ rLease'.Sequence >= rLease.Sequence
        /\ crashed' \in SequenceViolations => rLease' = rLease
        /\ crashed \in SequenceViolations => rLease = lPrev
        /\ (rLease' # rLease \/ (lpc = "install" /\ lpc' # "install")) =>
               /\ lpc = "install" /\ rLease' = lNew /\ crashed' = "none"
               /\ (~lPermitJump /\ rLease.Sequence # 0) =>
                      rLease'.Sequence <= rLease.Sequence + 1 ]_vars

\* Over an installed lease of a sequence above 1, a call without permitJump
\* has installed the lease of the next sequence number.
C37_Witness ==
    /\ crashed = "none"
    /\ lpc = "after"
    /\ ~lPermitJump
    /\ lPrev.Sequence = MaxSeq - 1
    /\ lPrev.Sequence > 1
    /\ rLease = lNew
    /\ rLease.Sequence = MaxSeq

\* C38: if raftLogLastCheckSize <= raftLogSize holds before an apply, it holds
\* after it, whatever the delta and whichever branch is taken (the additive
\* update with its clamps, or the threshold check that sets the last-check size
\* to the size); the growth the Raft-log-queue decision is made on is therefore
\* never negative.
C38_LastCheckNeverAboveSize ==
    [][ /\ (RanSection("raftLog") /\ rep.raftLogLastCheckSize <= rep.raftLogSize) =>
               rep'.raftLogLastCheckSize <= rep'.raftLogSize
        /\ (ReplicatedApplyStep
            /\ aLast'.pre[1].rep.raftLogLastCheckSize <= aLast'.pre[1].rep.raftLogSize) =>
               rep'.raftLogLastCheckSize <= rep'.raftLogSize
        /\ rep.raftLogSize - rep.raftLogLastCheckSize >= 0 ]_vars

\* A negative delta took more than the last-check size held off both sizes:
\* the last-check size was clamped at zero, below a size that is still
\* positive.
C38_Witness ==
    /\ ReplicatedApplied
    /\ NetRaftLogDelta < 0
    /\ aLast.pre[1].rep.raftLogLastCheckSize > 0
    /\ aLast.pre[1].rep.raftLogLastCheckSize + NetRaftLogDelta < 0
    /\ rep.raftLogLastCheckSize = 0
    /\ rep.raftLogSize = aLast.pre[1].rep.raftLogSize + NetRaftLogDelta
    /\ rep.raftLogSize > 0

\* The entry of id is the one a compute-checksum command installed.
ChecksumStarted(id) == checksums[id] # None /\ checksums[id][1].started

\* The calls of computeChecksumDone made or still to come for id since its
\* command was applied: those made, the one its task makes when it runs, and
\* the one computeChecksumPostApply or the task it is about to launch makes
\* while the call is between the install and that point.
DoneMadeOrPending(id) ==
    doneCount[id]
    + (IF \E t \in tasks : t.id = id /\ ~t.done THEN 1 ELSE 0)
    + (IF /\ apc \in {"ccMismatch", "ccSnapshot", "ccRunTask", "ccNotRun"}
          /\ CallChecksumID = id
       THEN 1 ELSE 0)

\* C39: every computeChecksumPostApply that does not crash leads to exactly one
\* computeChecksumDone for its checksum ID, never none and never two: it is
\* made before the call returns on a version mismatch or when the task is not
\* accepted, and by the asynchronous task otherwise, once it runs; as long as
\* the process lives, a collector waiting on the entry's notification channel
\* is therefore released in the end.
C39_ExactlyOneDone ==
    /\ [](\A id \in ChecksumIDs :
            ChecksumStarted(id) =>
                /\ DoneMadeOrPending(id) = 1
                /\ checksums[id][1].notify.closed <=> doneCount[id] = 1)
    /\ [][ ChecksumAppliedStep =>
             /\ DoneSynchronously' <=> "RunAsyncTask" \notin aLast'.eff
             /\ DoneSynchronously' =>
                    /\ doneCount'[LastChecksumID'] = 1
                    /\ \A t \in tasks' : t.id = LastChecksumID' => t.done
             /\ ~DoneSynchronously' =>
                    doneCount'[LastChecksumID'] =
                        IF \E t \in tasks' : t.id = LastChecksumID' /\ ~t.done
                        THEN 0 ELSE 1 ]_vars
    /\ \A id \in ChecksumIDs :
          (ChecksumStarted(id) /\ ~checksums[id][1].notify.closed)
              ~> (\/ crashed # "none"
                  \/ ChecksumStarted(id) /\ checksums[id][1].notify.closed
                       /\ doneCount[id] = 1)

\* A collector registered its wait, the command was applied and handed to its
\* task, and the task has run: one computeChecksumDone, the collector's channel
\* closed with the digest in the entry.
C39_Witness ==
    /\ crashed = "none"
    /\ \E id \in ChecksumIDs :
          /\ ChecksumStarted(id)
          /\ aLast.fn = "handleReplicatedEvalResult"
          /\ aLast.input[1].ComputeChecksum # None
          /\ aLast.input[1].ComputeChecksum[1].ChecksumID = id
          /\ aLast.pre[1].checksums[id] # None
          /\ ~aLast.pre[1].checksums[id][1].started
          /\ checksums[id][1].notify.ch = aLast.pre[1].checksums[id][1].notify.ch
          /\ checksums[id][1].notify.closed
          /\ checksums[id][1].checksum = "sha"
          /\ doneCount[id] = 1
          /\ \A t \in tasks : t.id # id

\* The IngestExternalFiles calls of the last call that succeeded: the ingest of
\* the hardlink (no modification) unless the engine answered with an error, the
\* final one (modification permitted) unless it failed.
SSTIngestsSucceeded ==
    { i \in SSTOps("IngestExternalFiles") :
        IF sstOut[1].eff[i].modify THEN ~sstIn[1].env.finalIngestErr
        ELSE sstIn[1].env.ingestErr = None }

\* C40: on every return of addSSTablePreApply that is not a fatal or a panic,
\* exactly one IngestExternalFiles call has succeeded, and it is the last call
\* made (the ingest of the hardlink without modification, or the final ingest
\* with modification permitted, never both); the value returned is true
\* exactly when the payload was written to the ingest path of an on-disk
\* engine, and false on an in-memory engine.
C40_OneIngestCopiedIffWritten ==
    (SSTApplied /\ sstOut[1].crash = "none") =>
        LET out == sstOut[1]
            env == sstIn[1].env
        IN  /\ Cardinality(SSTIngestsSucceeded) = 1
            /\ SSTIngestsSucceeded = {Len(out.eff)}
            /\ out.copied <=> SSTOps("writeFileSyncing") # {}
            /\ out.copied => ~env.inmem /\ ~env.writeErr
            /\ env.inmem => ~out.copied /\ SSTOps("inmem.WriteFile") # {}
            /\ ~out.eff[Len(out.eff)].modify => ~out.copied

\* The hardlink's ingest failed on a sequence-number error, the payload was
\* copied and the final ingest went through: two ingest calls, one success,
\* true returned.
C40_Witness ==
    /\ SSTApplied
    /\ sstOut[1].crash = "none"
    /\ Cardinality(SSTOps("IngestExternalFiles")) = 2
    /\ Cardinality(SSTIngestsSucceeded) = 1
    /\ sstOut[1].copied
    /\ Len(sstIn[1].sst.Data) > 0

====

